---- MODULE Spec2Model ----
(***************************************************************************)
(* Booking lifecycle and reminder scheduler of keramika-bot.               *)
(*                                                                         *)
(* src/database.py : the bookings table and its queries                    *)
(* src/bot.py      : the chat handlers (customer slot request, admin       *)
(*                   confirm / reject / delete, admin manual entry) and    *)
(*                   the check_reminders loop                              *)
(*                                                                         *)
(* Time is counted in units of 90 seconds since 30.03 00:00 of the current *)
(* year, so that 0.9 h, 1.1 h, 23 h, 25 h and the 900 s sleep are whole    *)
(* numbers of units and a sequence of ticks can step over the 12-minute    *)
(* hour window.  A date string "DD.MM" is the pair                         *)
(* <<DD, MM>>, a time string "HH:MM" the pair <<HH, MM>>; Python compares  *)
(* the strings character by character, which for these fixed-width         *)
(* strings is the lexicographic order of the pairs (day first).            *)
(*                                                                         *)
(* A handler runs without interruption up to its first await that really   *)
(* suspends (a Telegram API call); the FSM storage is MemoryStorage, whose *)
(* coroutines complete without suspending.  Handlers whose code after the  *)
(* suspension still changes state (process_booking, process_admin_time)    *)
(* leave a continuation in `inflight`.                                     *)
(***************************************************************************)
EXTENDS Integers, Sequences, FiniteSets

\* ---------------------------------------------------------------- bounds
NumUsers == 2
MaxId == 2
MaxTasks == 1
MaxTicks == 10
MaxRestarts == 1
MaxDowntime == 1
\* the scheduler is first started at 13:45 (plus a phase below one sleep)
StartBase == 550
\* the confirm presses, and the reject presses, followed per booking
MaxDecisions == 1
\* or, for the bookings right after midnight, at 23:15
NightBase == 930

\* ------------------------------------------------------ program constants
\* one hour, in 90-second units
UnitsPerHour == 40
UnitsPerDay == 24 * UnitsPerHour
\* asyncio.sleep(900)
TickInterval == 10
\* 23 <= hours_diff <= 25
DayLo == 23 * UnitsPerHour
DayHi == 25 * UnitsPerHour
\* 0.9 <= hours_diff <= 1.1
HourLo == 36
HourHi == 44

\* the value of a missing ADMIN_ID (os.getenv returns None)
NoAdmin == 0
\* the Telegram id of the administrator when ADMIN_ID is configured
AdminUser == 1
\* user_id 0: "unknown / manually entered"
UnknownUser == 0
Users == 1..NumUsers
Ids == 1..MaxId

\* The days of the current year the model looks at: Mon 30.03, Tue 31.03,
\* Wed 01.04, Thu 02.04, Fri 03.04 (2026)
Calendar == << <<30, 3>>, <<31, 3>> , <<1, 4>>, <<2, 4>>, <<3, 4>> >>
DayIndexes == 0..(Len(Calendar) - 1)

VARIABLES
    ADMIN_ID,      \* configuration, fixed at startup
    store,         \* the bookings table: id -> row
    nextId,        \* AUTOINCREMENT: the next id to assign
    fsm,           \* MemoryStorage: user -> [state, data]
    inflight,      \* suspended handler continuations: <<handler, user>> -> count
    now,           \* the clock read by the latest scan tick
    schedPc,       \* position of check_reminders
    all_bookings,  \* check_reminders' local list for the current tick
    idx,           \* position of the for loop in all_bookings
    sent,          \* notifications dispatched so far: <<id, kind>> -> count
    restarts       \* restarts of the process so far

vars == <<ADMIN_ID, store, nextId, fsm, inflight, now, schedPc, all_bookings, idx,
          sent, restarts>>
storeVars == <<store, nextId>>
chatVars == <<fsm, inflight>>
schedVars == <<now, schedPc, all_bookings, idx, sent, restarts>>

\* ------------------------------------------------------------ date and time
\* Python's str < str on two "DD.MM" (or "HH:MM") strings
StrLess(a, b) == a[1] < b[1] \/ (a[1] = b[1] /\ a[2] < b[2])

\* datetime.now().strftime("%d.%m")
strftime_date(t) == Calendar[(t \div UnitsPerDay) + 1]

IsCalendarDate(d) == \E i \in DayIndexes : Calendar[i + 1] = d

DayIndexOf(d) == CHOOSE i \in DayIndexes : Calendar[i + 1] = d

\* date.weekday(): 0 is Monday (the first day of Calendar is one)
weekday(d) == DayIndexOf(d) % 7

\* the date of the n-th day counted from 30.03 (days 0..32: 30.03 to 30.04)
DateOfDay(n) == IF n <= 1 THEN <<30 + n, 3>> ELSE <<n - 1, 4>>

\* (datetime.now() + timedelta(days=k)).strftime("%d.%m")
strftime_ahead(t, k) == DateOfDay((t \div UnitsPerDay) + k)

\* datetime(now.year, month, day, hour, minute), in units
booking_datetime(date, time) ==
    DayIndexOf(date) * UnitsPerDay + time[1] * UnitsPerHour + ((2 * time[2]) \div 3)

\* (booking_datetime - now).total_seconds() / 3600, in units
hours_diff(b, t) == booking_datetime(b.selected_date, b.selected_time) - t

\* ------------------------------------------------------------- database.py
Occupying == {"pending", "confirmed"}

is_slot_available_confirmed_only(s, date, time) ==
    ~ \E i \in DOMAIN s : /\ s[i].selected_date = date
                          /\ s[i].selected_time = time
                          /\ s[i].status = "confirmed"

is_slot_available(s, date, time) ==
    ~ \E i \in DOMAIN s : /\ s[i].selected_date = date
                          /\ s[i].selected_time = time
                          /\ s[i].status \in Occupying

\* an INSERT into a table without AUTOINCREMENT: the row gets the largest id
\* of the table plus one
create_booking_reusing_rowid(s, n, user_id, date, time) ==
    LET m == IF DOMAIN s = {} THEN 1
             ELSE 1 + CHOOSE k \in DOMAIN s : \A j \in DOMAIN s : j <= k
    IN  [i \in DOMAIN s \cup {m} |->
            IF i = m
            THEN [id |-> m, user_id |-> user_id, selected_date |-> date,
                  selected_time |-> time, status |-> "pending",
                  reminder_day_sent |-> FALSE, reminder_hour_sent |-> FALSE]
            ELSE s[i]]

\* INSERT ... VALUES (..., 'pending'); the row gets id n
create_booking(s, n, user_id, date, time) ==
    [i \in DOMAIN s \cup {n} |->
        IF i = n
        THEN [id |-> n, user_id |-> user_id, selected_date |-> date,
              selected_time |-> time, status |-> "pending",
              reminder_day_sent |-> FALSE, reminder_hour_sent |-> FALSE]
        ELSE s[i]]

\* SELECT * FROM bookings WHERE id = ?: no row (None) or one row
get_booking(s, i) == {s[j] : j \in DOMAIN s \cap {i}}

update_booking_status_always_confirmed(s, i, status) ==
    [j \in DOMAIN s |-> IF j = i THEN [s[j] EXCEPT !.status = "confirmed"] ELSE s[j]]

\* an UPDATE that matches no row
update_booking_status_unwritten(s, i, status) == s

\* an UPDATE that also writes the two reminder columns
update_booking_status_resetting_flags(s, i, status) ==
    [j \in DOMAIN s |->
        IF j = i THEN [s[j] EXCEPT !.status = status,
                                   !.reminder_day_sent = FALSE,
                                   !.reminder_hour_sent = FALSE]
        ELSE s[j]]

\* an UPDATE that reopens a booking which already has the status asked for
update_booking_status_reopening(s, i, status) ==
    [j \in DOMAIN s |->
        IF j = i THEN [s[j] EXCEPT !.status = IF @ = status THEN "pending" ELSE status]
        ELSE s[j]]

\* an UPDATE that also sets the day reminder's flag
update_booking_status_marking_reminded(s, i, status) ==
    [j \in DOMAIN s |->
        IF j = i THEN [s[j] EXCEPT !.status = status, !.reminder_day_sent = TRUE]
        ELSE s[j]]

\* an UPDATE that stores a rejection under a status of its own
update_booking_status_cancelling(s, i, status) ==
    [j \in DOMAIN s |->
        IF j = i THEN [s[j] EXCEPT !.status = IF status = "rejected" THEN "cancelled"
                                              ELSE status]
        ELSE s[j]]

update_booking_status(s, i, status) ==
    [j \in DOMAIN s |-> IF j = i THEN [s[j] EXCEPT !.status = status] ELSE s[j]]

\* a DELETE that spares the bookings that are not pending
delete_booking_pending_only(s, i) ==
    [j \in {k \in DOMAIN s : k # i \/ s[k].status # "pending"} |-> s[j]]

delete_booking(s, i) == [j \in DOMAIN s \ {i} |-> s[j]]

\* return cursor.rowcount > 0
delete_booking_returns(s, i) == Cardinality(DOMAIN s \cap {i}) > 0

\* a SELECT that leaves the pending bookings out
get_booked_slots_confirmed_only(s, date) ==
    {s[i].selected_time : i \in {j \in DOMAIN s : /\ s[j].selected_date = date
                                                   /\ s[j].status = "confirmed"}}

get_booked_slots(s, date) ==
    {s[i].selected_time : i \in {j \in DOMAIN s : /\ s[j].selected_date = date
                                                   /\ s[j].status \in Occupying}}

mark_reminder_sent_noop(s, i, kind) == s

\* an UPDATE that writes the status column along with the flag
mark_reminder_sent_rewriting_status(s, i, kind) ==
    [j \in DOMAIN s |->
        IF j # i THEN s[j]
        ELSE IF kind = "day" THEN [s[j] EXCEPT !.reminder_day_sent = TRUE, !.status = "pending"]
        ELSE IF kind = "hour" THEN [s[j] EXCEPT !.reminder_hour_sent = TRUE, !.status = "pending"]
        ELSE s[j]]

\* an UPDATE that flips the flag
mark_reminder_sent_toggle(s, i, kind) ==
    [j \in DOMAIN s |->
        IF j # i THEN s[j]
        ELSE IF kind = "day" THEN [s[j] EXCEPT !.reminder_day_sent = ~ @]
        ELSE IF kind = "hour" THEN [s[j] EXCEPT !.reminder_hour_sent = ~ @]
        ELSE s[j]]

mark_reminder_sent(s, i, kind) ==
    [j \in DOMAIN s |->
        IF j # i THEN s[j]
        ELSE IF kind = "day" THEN [s[j] EXCEPT !.reminder_day_sent = TRUE]
        ELSE IF kind = "hour" THEN [s[j] EXCEPT !.reminder_hour_sent = TRUE]
        ELSE s[j]]

\* ORDER BY selected_date ASC, selected_time ASC (text comparison; rowid breaks ties)
RowBefore(a, b) ==
    \/ StrLess(a.selected_date, b.selected_date)
    \/ /\ a.selected_date = b.selected_date
       /\ \/ StrLess(a.selected_time, b.selected_time)
          \/ (a.selected_time = b.selected_time /\ a.id < b.id)

RECURSIVE OrderRows(_)
OrderRows(rows) ==
    IF rows = {} THEN << >>
    ELSE LET first == CHOOSE r \in rows : \A q \in rows \ {r} : RowBefore(r, q)
         IN  <<first>> \o OrderRows(rows \ {first})

get_confirmed_bookings_any_status(s) == OrderRows({s[i] : i \in DOMAIN s})

get_confirmed_bookings(s) ==
    OrderRows({s[i] : i \in {j \in DOMAIN s : s[j].status = "confirmed"}})

\* CASE status WHEN 'pending' THEN 1 WHEN 'confirmed' THEN 2 WHEN 'rejected' THEN 3 ELSE 4
StatusRank(status) ==
    IF status = "pending" THEN 1
    ELSE IF status = "confirmed" THEN 2
    ELSE IF status = "rejected" THEN 3
    ELSE 4

\* an ORDER BY that leaves the CASE out: created_at DESC alone
AllBefore_by_creation_only(a, b) ==
    \/ a.created_at > b.created_at
    \/ (a.created_at = b.created_at /\ a.id < b.id)

\* ORDER BY CASE status ... END, created_at DESC (rows equal in both come in
\* rowid order)
AllBefore(a, b) ==
    \/ StatusRank(a.status) < StatusRank(b.status)
    \/ /\ StatusRank(a.status) = StatusRank(b.status)
       /\ \/ a.created_at > b.created_at
          \/ (a.created_at = b.created_at /\ a.id < b.id)

RECURSIVE OrderAll(_)
OrderAll(rows) ==
    IF rows = {} THEN << >>
    ELSE LET first == CHOOSE r \in rows : \A q \in rows \ {r} : AllBefore(r, q)
         IN  <<first>> \o OrderAll(rows \ {first})

\* SELECT * FROM bookings ORDER BY CASE status ... END, created_at DESC
get_all_bookings(s) == OrderAll({s[i] : i \in DOMAIN s})

\* selected_date BETWEEN ? AND ?, on the strings
TextBetween(d, start_date, end_date) ==
    ~ StrLess(d, start_date) /\ ~ StrLess(end_date, d)

\* SELECT * FROM bookings WHERE selected_date BETWEEN ? AND ?
\* AND status IN ('pending', 'confirmed') ORDER BY selected_date ASC, selected_time ASC
get_bookings_by_date_range(s, start_date, end_date) ==
    OrderRows({s[i] : i \in {j \in DOMAIN s :
                                /\ TextBetween(s[j].selected_date, start_date, end_date)
                                /\ s[j].status \in Occupying}})

\* SELECT status, COUNT(*) FROM bookings GROUP BY status
StatusCount(s, status) == Cardinality({i \in DOMAIN s : s[i].status = status})

RECURSIVE SumCounts(_, _)
SumCounts(s, groups) ==
    IF groups = {} THEN 0
    ELSE LET g == CHOOSE x \in groups : TRUE
         IN  StatusCount(s, g) + SumCounts(s, groups \ {g})

\* summary.get(status, 0) for the three statuses, and sum(summary.values())
get_bookings_summary(s) ==
    [pending |-> StatusCount(s, "pending"),
     confirmed |-> StatusCount(s, "confirmed"),
     rejected |-> StatusCount(s, "rejected"),
     total |-> SumCounts(s, {s[i].status : i \in DOMAIN s})]

\* ------------------------------------------------------------ inputs (bounded)
\* dates typed by the admin / carried by the date_DDMM_HH buttons
InputDates == {Calendar[2]}
\* hours carried by the date_DDMM_HH buttons pressed in the model
InputHours == {15}
\* times typed by the admin in the manual-entry flow
InputTimes == {<<15, 0>>}
\* times typed by the admin when any text shaped HH:MM may be typed
EntryTimes == {<<15, 0>>, <<16, 45>>}
\* ids typed by the admin in the manual-entry flow
InputUserIds == {UnknownUser}

\* ------------------------------------------------------------ FSM storage
NoDate == << >>
NoData == [user_id |-> -1, selected_date |-> NoDate]
Cleared == [state |-> "none", data |-> NoData]
TaskKinds == {"process_booking", "process_admin_time"}
Tasks == TaskKinds \X Users

InflightCount == LET RECURSIVE Sum(_)
                     Sum(S) == IF S = {} THEN 0
                               ELSE LET k == CHOOSE x \in S : TRUE
                                    IN  inflight[k] + Sum(S \ {k})
                 IN  Sum(Tasks)

\* an identity check that lets every requester through
is_admin_anyone(u) == TRUE

\* str(from_user.id) != str(ADMIN_ID)
is_admin(u) == ADMIN_ID # NoAdmin /\ u = ADMIN_ID

Suspend(kind, u) == inflight' = [inflight EXCEPT ![<<kind, u>>] = @ + 1]
Resume(kind, u) == inflight' = [inflight EXCEPT ![<<kind, u>>] = @ - 1]

\* -------------------------------------------------- bot.py: keyboards
\* the hours get_dates_keyboard goes through on the n-th day from 30.03 (a
\* Monday): [15, 18] if date.weekday() < 5, else [11, 14, 17]
SlotHours(n) == IF n % 7 < 5 THEN {15, 18} ELSE {11, 14, 17}

\* the date_DDMM_HH buttons of one day: the hours whose "HH:00" is not in
\* db.get_booked_slots(date_str)
DayButtons(s, n) ==
    {<<DateOfDay(n), h>> : h \in {x \in SlotHours(n) :
                                    <<x, 0>> \notin get_booked_slots(s, DateOfDay(n))}}

\* get_dates_keyboard() at clock reading t: for i in range(1, 8), the buttons
\* of day today + i, as pairs (date, hour)
get_dates_keyboard(s, t) ==
    UNION {DayButtons(s, (t \div UnitsPerDay) + k) : k \in 1..7}

\* -------------------------------------------------- bot.py: customer flow
\* callback book_<type>
start_booking(u) ==
    /\ fsm' = [fsm EXCEPT ![u].state = "waiting_for_date"]
    /\ UNCHANGED <<ADMIN_ID, storeVars, inflight, schedVars>>

\* callback date_DDMM_HH in state waiting_for_date: the slot is taken
process_booking_taken(u, date, hour) ==
    /\ fsm[u].state = "waiting_for_date"
    /\ ~ is_slot_available(store, date, <<hour, 0>>)
    /\ UNCHANGED vars

\* callback date_DDMM_HH in state waiting_for_date: the slot is free
process_booking_created(u, date, hour) ==
    /\ fsm[u].state = "waiting_for_date"
    /\ is_slot_available(store, date, <<hour, 0>>)
    /\ nextId <= MaxId
    /\ store' = create_booking(store, nextId, u, date, <<hour, 0>>)
    /\ nextId' = nextId + 1
    /\ IF ADMIN_ID # NoAdmin
       THEN \* await bot.send_message(int(ADMIN_ID), ...)
            /\ InflightCount < MaxTasks
            /\ Suspend("process_booking", u)
            /\ UNCHANGED fsm
       ELSE \* await state.clear()
            /\ fsm' = [fsm EXCEPT ![u] = Cleared]
            /\ UNCHANGED inflight
    /\ UNCHANGED <<ADMIN_ID, schedVars>>

\* the admin notification returned or raised: state.clear() on both paths
process_booking_resume(u) ==
    /\ inflight[<<"process_booking", u>>] > 0
    /\ Resume("process_booking", u)
    /\ fsm' = [fsm EXCEPT ![u] = Cleared]
    /\ UNCHANGED <<ADMIN_ID, storeVars, schedVars>>

\* ------------------------- bot.py: process_booking with its answers
\* the slot requests whose admin notification for booking i has not ended
RequestsInFlight(i) ==
    sent[<<i, "notify">>] - sent[<<i, "created_reply">>] - sent[<<i, "error_reply">>]

\* process_booking with no ADMIN_ID: the booking is inserted, state.clear(),
\* callback.answer("Заявка создана!")
process_booking_unnotified(u, date, hour) ==
    /\ fsm[u].state = "waiting_for_date"
    /\ is_slot_available(store, date, <<hour, 0>>)
    /\ nextId <= MaxId
    /\ ADMIN_ID = NoAdmin
    /\ store' = create_booking(store, nextId, u, date, <<hour, 0>>)
    /\ nextId' = nextId + 1
    /\ fsm' = [fsm EXCEPT ![u] = Cleared]
    /\ sent' = [sent EXCEPT ![<<nextId, "created_reply">>] = @ + 1]
    /\ UNCHANGED <<ADMIN_ID, inflight, now, schedPc, all_bookings, idx, restarts>>

\* process_booking up to its first await: the booking is inserted, then
\* bot.send_message(int(ADMIN_ID), ...) is awaited
process_booking_notify(u, date, hour) ==
    /\ fsm[u].state = "waiting_for_date"
    /\ is_slot_available(store, date, <<hour, 0>>)
    /\ nextId <= MaxId
    /\ ADMIN_ID # NoAdmin
    /\ InflightCount < MaxTasks
    /\ store' = create_booking(store, nextId, u, date, <<hour, 0>>)
    /\ nextId' = nextId + 1
    /\ Suspend("process_booking", u)
    /\ sent' = [sent EXCEPT ![<<nextId, "notify">>] = @ + 1]
    /\ UNCHANGED <<ADMIN_ID, fsm, now, schedPc, all_bookings, idx, restarts>>

\* the notification returned: state.clear(), callback.answer("Заявка создана!")
process_booking_notified(u, i) ==
    /\ RequestsInFlight(i) > 0
    /\ get_booking(store, i) # {} /\ store[i].user_id = u
    /\ Resume("process_booking", u)
    /\ fsm' = [fsm EXCEPT ![u] = Cleared]
    /\ sent' = [sent EXCEPT ![<<i, "created_reply">>] = @ + 1]
    /\ UNCHANGED <<ADMIN_ID, storeVars, now, schedPc, all_bookings, idx, restarts>>

\* the notification raised: except Exception logs the error,
\* callback.answer("Ошибка", show_alert=True), state.clear()
process_booking_notify_failed(u, i) ==
    /\ RequestsInFlight(i) > 0
    /\ get_booking(store, i) # {} /\ store[i].user_id = u
    /\ Resume("process_booking", u)
    /\ fsm' = [fsm EXCEPT ![u] = Cleared]
    /\ sent' = [sent EXCEPT ![<<i, "error_reply">>] = @ + 1]
    /\ UNCHANGED <<ADMIN_ID, storeVars, now, schedPc, all_bookings, idx, restarts>>

\* ------------------------------------------- bot.py: admin confirm / reject
confirm_booking_denied(u) ==
    /\ ~ is_admin(u)
    /\ UNCHANGED vars

confirm_booking_not_found(u, i) ==
    /\ is_admin(u)
    /\ get_booking(store, i) = {}
    /\ UNCHANGED vars

confirm_booking(u, i) ==
    /\ is_admin(u)
    /\ get_booking(store, i) # {}
    /\ store' = update_booking_status(store, i, "confirmed")
    /\ UNCHANGED <<ADMIN_ID, nextId, chatVars, schedVars>>

reject_booking_denied(u) ==
    /\ ~ is_admin(u)
    /\ UNCHANGED vars

reject_booking_not_found(u, i) ==
    /\ is_admin(u)
    /\ get_booking(store, i) = {}
    /\ UNCHANGED vars

reject_booking(u, i) ==
    /\ is_admin(u)
    /\ get_booking(store, i) # {}
    /\ store' = update_booking_status(store, i, "rejected")
    /\ UNCHANGED <<ADMIN_ID, nextId, chatVars, schedVars>>

\* --------------------- bot.py: confirm / reject with the customer's notice
\* the notices of a decision on booking i whose send has not ended
DecisionsInFlight(i) ==
    sent[<<i, "confirm">>] + sent[<<i, "reject">>]
    - sent[<<i, "decision_delivered">>] - sent[<<i, "decision_failed">>]

\* confirm_booking up to its first await: the status is written, then
\* bot.send_message(booking['user_id'], ...) is awaited
confirm_booking_send(u, i) ==
    /\ is_admin(u)
    /\ get_booking(store, i) # {}
    /\ sent[<<i, "confirm">>] < MaxDecisions
    /\ store' = update_booking_status(store, i, "confirmed")
    /\ sent' = [sent EXCEPT ![<<i, "confirm">>] = @ + 1]
    /\ UNCHANGED <<ADMIN_ID, nextId, chatVars, now, schedPc, all_bookings, idx,
                   restarts>>

\* reject_booking up to its first await
reject_booking_send(u, i) ==
    /\ is_admin(u)
    /\ get_booking(store, i) # {}
    /\ sent[<<i, "reject">>] < MaxDecisions
    /\ store' = update_booking_status(store, i, "rejected")
    /\ sent' = [sent EXCEPT ![<<i, "reject">>] = @ + 1]
    /\ UNCHANGED <<ADMIN_ID, nextId, chatVars, now, schedPc, all_bookings, idx,
                   restarts>>

\* the send returned: callback.answer and edit_text follow
decision_send_returned(i) ==
    /\ DecisionsInFlight(i) > 0
    /\ sent' = [sent EXCEPT ![<<i, "decision_delivered">>] = @ + 1]
    /\ UNCHANGED <<ADMIN_ID, storeVars, chatVars, now, schedPc, all_bookings, idx,
                   restarts>>

\* a failure handler that takes the decision back
decision_send_failed_rolling_back(i) ==
    /\ DecisionsInFlight(i) > 0
    /\ sent' = [sent EXCEPT ![<<i, "decision_failed">>] = @ + 1]
    /\ store' = update_booking_status(store, i, "pending")
    /\ UNCHANGED <<ADMIN_ID, nextId, chatVars, now, schedPc, all_bookings, idx,
                   restarts>>

\* the send raised: except Exception logs the error, then callback.answer and
\* edit_text follow as after a delivered notice
decision_send_failed(i) ==
    /\ DecisionsInFlight(i) > 0
    /\ sent' = [sent EXCEPT ![<<i, "decision_failed">>] = @ + 1]
    /\ UNCHANGED <<ADMIN_ID, storeVars, chatVars, now, schedPc, all_bookings, idx,
                   restarts>>

\* ------------------------------------------------- bot.py: admin deletion
delete_confirm_denied(u) ==
    /\ ~ is_admin(u)
    /\ UNCHANGED vars

delete_confirm_not_found(u, i) ==
    /\ is_admin(u)
    /\ get_booking(store, i) = {}
    /\ UNCHANGED vars

\* the cancellation notice is dispatched when the row had a non-zero user_id
delete_confirm(u, i) ==
    /\ is_admin(u)
    /\ get_booking(store, i) # {}
    /\ store' = delete_booking(store, i)
    /\ sent' = IF store[i].user_id # UnknownUser
               THEN [sent EXCEPT ![<<i, "cancel">>] = @ + 1]
               ELSE sent
    /\ UNCHANGED <<ADMIN_ID, nextId, chatVars, now, schedPc, all_bookings, idx,
                   restarts>>

\* ------------------------------------------- bot.py: admin manual entry
\* /add_booking
cmd_add_booking_denied(u) ==
    /\ ~ is_admin(u)
    /\ UNCHANGED vars

\* /add_booking and the admin_manual_booking button: set_state only, the
\* stored data is kept
cmd_add_booking(u) ==
    /\ is_admin(u)
    /\ fsm' = [fsm EXCEPT ![u].state = "waiting_for_user_id"]
    /\ UNCHANGED <<ADMIN_ID, storeVars, inflight, schedVars>>

\* a message in state waiting_for_user_id that int() rejects
process_admin_user_id_invalid(u) ==
    /\ fsm[u].state = "waiting_for_user_id"
    /\ UNCHANGED vars

process_admin_user_id(u, user_id) ==
    /\ fsm[u].state = "waiting_for_user_id"
    /\ fsm' = [fsm EXCEPT ![u].data.user_id = user_id,
                          ![u].state = IF user_id = 0 THEN "waiting_for_username"
                                       ELSE "waiting_for_name"]
    /\ UNCHANGED <<ADMIN_ID, storeVars, inflight, schedVars>>

\* the typed username only appears in message texts
process_admin_username(u) ==
    /\ fsm[u].state = "waiting_for_username"
    /\ fsm' = [fsm EXCEPT ![u].state = "waiting_for_name"]
    /\ UNCHANGED <<ADMIN_ID, storeVars, inflight, schedVars>>

process_admin_name(u) ==
    /\ fsm[u].state = "waiting_for_name"
    /\ fsm' = [fsm EXCEPT ![u].state = "waiting_for_booking_type"]
    /\ UNCHANGED <<ADMIN_ID, storeVars, inflight, schedVars>>

process_admin_booking_type(u) ==
    /\ fsm[u].state = "waiting_for_booking_type"
    /\ fsm' = [fsm EXCEPT ![u].state = "admin_waiting_for_date"]
    /\ UNCHANGED <<ADMIN_ID, storeVars, inflight, schedVars>>

\* len(date) != 5 or date[2] != '.'
process_admin_date_invalid(u) ==
    /\ fsm[u].state = "admin_waiting_for_date"
    /\ UNCHANGED vars

process_admin_date(u, date) ==
    /\ fsm[u].state = "admin_waiting_for_date"
    /\ fsm' = [fsm EXCEPT ![u].data.selected_date = date,
                          ![u].state = "waiting_for_time"]
    /\ UNCHANGED <<ADMIN_ID, storeVars, inflight, schedVars>>

\* len(time_str) != 5 or time_str[2] != ':': return inside the try, the
\* final state.clear() is not reached
process_admin_time_invalid(u) ==
    /\ fsm[u].state = "waiting_for_time"
    /\ UNCHANGED vars

process_admin_time_taken(u, time) ==
    /\ fsm[u].state = "waiting_for_time"
    /\ ~ is_slot_available(store, fsm[u].data.selected_date, time)
    /\ fsm' = [fsm EXCEPT ![u] = Cleared]
    /\ UNCHANGED <<ADMIN_ID, storeVars, inflight, schedVars>>

\* data.get('user_id', 0)
data_user_id(data) == IF data.user_id = -1 THEN UnknownUser ELSE data.user_id

\* create_booking and update_booking_status(booking_id, 'confirmed') run
\* back to back; the handler then suspends in message.answer
process_admin_time_created(u, time) ==
    /\ fsm[u].state = "waiting_for_time"
    /\ is_slot_available(store, fsm[u].data.selected_date, time)
    /\ nextId <= MaxId
    /\ InflightCount < MaxTasks
    /\ store' = update_booking_status(
                    create_booking(store, nextId, data_user_id(fsm[u].data),
                                   fsm[u].data.selected_date, time),
                    nextId, "confirmed")
    /\ nextId' = nextId + 1
    /\ Suspend("process_admin_time", u)
    /\ UNCHANGED <<ADMIN_ID, fsm, schedVars>>

\* the answers were sent (or raised): the final state.clear()
process_admin_time_resume(u) ==
    /\ inflight[<<"process_admin_time", u>>] > 0
    /\ Resume("process_admin_time", u)
    /\ fsm' = [fsm EXCEPT ![u] = Cleared]
    /\ UNCHANGED <<ADMIN_ID, storeVars, schedVars>>

\* ------------------- bot.py: admin manual entry with the typed username
\* state.update_data(key=value): the other keys of the stored data are kept
update_data(data, key, value) ==
    [k \in DOMAIN data \cup {key} |-> IF k = key THEN value ELSE data[k]]

\* data.get(key, default)
data_get(data, key, default) == IF key \in DOMAIN data THEN data[key] ELSE default

\* data.get('username', 'manual')
DefaultUsername == "manual"

\* a message in state waiting_for_username: update_data(username=...)
process_admin_username_typed(u, username) ==
    /\ fsm[u].state = "waiting_for_username"
    /\ fsm' = [fsm EXCEPT ![u].data = update_data(@, "username", username),
                          ![u].state = "waiting_for_name"]
    /\ UNCHANGED <<ADMIN_ID, storeVars, inflight, schedVars>>

\* create_booking(user_id=..., username=..., ...) on a table that keeps the
\* username column
create_booking_named(s, n, user_id, username, date, time) ==
    [i \in DOMAIN s \cup {n} |->
        IF i = n
        THEN [id |-> n, user_id |-> user_id, username |-> username,
              selected_date |-> date, selected_time |-> time, status |-> "pending",
              reminder_day_sent |-> FALSE, reminder_hour_sent |-> FALSE]
        ELSE s[i]]

\* process_admin_time on a free slot, with the username it reads from the
\* stored data
process_admin_time_named(u, time) ==
    /\ fsm[u].state = "waiting_for_time"
    /\ is_slot_available(store, fsm[u].data.selected_date, time)
    /\ nextId <= MaxId
    /\ InflightCount < MaxTasks
    /\ store' = update_booking_status(
                    create_booking_named(store, nextId, data_user_id(fsm[u].data),
                                         data_get(fsm[u].data, "username", DefaultUsername),
                                         fsm[u].data.selected_date, time),
                    nextId, "confirmed")
    /\ nextId' = nextId + 1
    /\ Suspend("process_admin_time", u)
    /\ UNCHANGED <<ADMIN_ID, fsm, schedVars>>

\* callback admin_cancel_booking (no identity check, any state)
admin_cancel_booking(u) ==
    /\ fsm' = [fsm EXCEPT ![u] = Cleared]
    /\ UNCHANGED <<ADMIN_ID, storeVars, inflight, schedVars>>

\* callback admin_manual_booking: the same start from the menu
admin_manual_booking_denied(u) ==
    /\ ~ is_admin(u)
    /\ UNCHANGED vars

admin_manual_booking(u) ==
    /\ is_admin(u)
    /\ fsm' = [fsm EXCEPT ![u].state = "waiting_for_user_id"]
    /\ UNCHANGED <<ADMIN_ID, storeVars, inflight, schedVars>>

\* ------------------------------------- bot.py: admin lists (they only read)
\* /admin: the pending bookings with their confirm and reject buttons
cmd_admin_denied(u) ==
    /\ ~ is_admin(u)
    /\ UNCHANGED vars

cmd_admin(u) ==
    /\ is_admin(u)
    /\ UNCHANGED vars

\* /bookings: the menu of the admin panel
cmd_bookings_denied(u) ==
    /\ ~ is_admin(u)
    /\ UNCHANGED vars

cmd_bookings(u) ==
    /\ is_admin(u)
    /\ UNCHANGED vars

\* callback admin_delete_menu: the bookings with their delete buttons
admin_delete_menu_denied(u) ==
    /\ ~ is_admin(u)
    /\ UNCHANGED vars

admin_delete_menu(u) ==
    /\ is_admin(u)
    /\ UNCHANGED vars

\* callback admin_today: the bookings of today
admin_today_denied(u) ==
    /\ ~ is_admin(u)
    /\ UNCHANGED vars

admin_today(u) ==
    /\ is_admin(u)
    /\ UNCHANGED vars

\* callback admin_week: the bookings of the next seven days
admin_week_denied(u) ==
    /\ ~ is_admin(u)
    /\ UNCHANGED vars

admin_week(u) ==
    /\ is_admin(u)
    /\ UNCHANGED vars

\* callback admin_all: all bookings
admin_all_denied(u) ==
    /\ ~ is_admin(u)
    /\ UNCHANGED vars

admin_all(u) ==
    /\ is_admin(u)
    /\ UNCHANGED vars

\* callback admin_pending: the pending bookings with their buttons
admin_pending_denied(u) ==
    /\ ~ is_admin(u)
    /\ UNCHANGED vars

admin_pending(u) ==
    /\ is_admin(u)
    /\ UNCHANGED vars

\* callback admin_delete_<id>: the delete request, answered with the
\* confirmation keyboard
admin_delete_booking_denied(u) ==
    /\ ~ is_admin(u)
    /\ UNCHANGED vars

admin_delete_booking_not_found(u, i) ==
    /\ is_admin(u)
    /\ get_booking(store, i) = {}
    /\ UNCHANGED vars

admin_delete_booking(u, i) ==
    /\ is_admin(u)
    /\ get_booking(store, i) # {}
    /\ UNCHANGED vars

\* the list admin_all groups by status
admin_all_bookings(s) == get_all_bookings(s)

\* the list admin_today shows: get_bookings_by_date_range(today, tomorrow)
admin_today_bookings(s, t) ==
    get_bookings_by_date_range(s, strftime_ahead(t, 0), strftime_ahead(t, 1))

\* the list admin_week shows: get_bookings_by_date_range(start_date, end_date)
\* from tomorrow to the seventh day from today
admin_week_bookings(s, t) ==
    get_bookings_by_date_range(s, strftime_ahead(t, 1), strftime_ahead(t, 7))

\* ---------------------------------------------- bot.py: check_reminders
\* per booking: the sends begun, by kind, and the customer sends that raised
\* and the notices of a decision: begun by confirm or reject, then delivered
\* or failed
\* and the slot requests: the admin notification begun for the booking, and
\* the answer the customer got, "created" or the error
Kinds == {"day", "hour", "admin", "cancel", "day_failed", "hour_failed",
          "confirm", "reject", "decision_delivered", "decision_failed",
          "notify", "created_reply", "error_reply"}

Dispatch(snt, i, kind) == [snt EXCEPT ![<<i, kind>>] = @ + 1]

InDayWindow_open_above(h) == DayLo <= h /\ h < DayHi

InDayWindow_no_lower(h) == h <= DayHi

InDayWindow(h) == DayLo <= h /\ h <= DayHi

InHourWindow_no_lower(h) == h <= HourHi

InHourWindow(h) == HourLo <= h /\ h <= HourHi

\* booking_date < current_date, on the strings
SkippedAsPast(b, t) == StrLess(b.selected_date, strftime_date(t))

\* datetime(...) raises ValueError, caught by the inner except
Unparsable(b) == ~ IsCalendarDate(b.selected_date)

\* the booking gets past the two `continue`s and the datetime construction
Evaluated(b, t) == ~ SkippedAsPast(b, t) /\ ~ Unparsable(b)

day_due_ignoring_flag(b, t) == InDayWindow(hours_diff(b, t))

day_due(b, t) == InDayWindow(hours_diff(b, t)) /\ ~ b.reminder_day_sent

hour_due(b, t) == InHourWindow(hours_diff(b, t)) /\ ~ b.reminder_hour_sent

\* send_admin_reminder returns at once when ADMIN_ID is not set
admin_due(b, t) == InHourWindow(hours_diff(b, t)) /\ ADMIN_ID # NoAdmin

\* the pass over this booking awaits a Telegram call
Awaits(b, t) == Evaluated(b, t) /\ (day_due(b, t) \/ hour_due(b, t) \/ admin_due(b, t))

\* a loop whose pass is ended by the first booking whose date does not parse
RECURSIVE NextAwait_stopping_at_unparsable(_, _, _)
NextAwait_stopping_at_unparsable(L, i, t) ==
    IF i > Len(L) THEN i
    ELSE IF ~ SkippedAsPast(L[i], t) /\ Unparsable(L[i]) THEN Len(L) + 1
    ELSE IF Awaits(L[i], t) THEN i
    ELSE NextAwait_stopping_at_unparsable(L, i + 1, t)

\* the for loop runs on from position i without suspending until a booking
\* needs a send; Len(L) + 1 when the loop ends
RECURSIVE NextAwait(_, _, _)
NextAwait(L, i, t) ==
    IF i > Len(L) THEN i
    ELSE IF Awaits(L[i], t) THEN i
    ELSE NextAwait(L, i + 1, t)

\* the loop goes on at position i of list L: either it suspends in the first
\* send of the next booking that needs one, or it ends and the task sleeps
\* (snt is the record of sends the step starts from)
RunLoopFrom(snt, L, i, t) ==
    LET j == NextAwait(L, i, t) IN
    IF j > Len(L)
    THEN /\ schedPc' = "sleep"
         /\ all_bookings' = << >>
         /\ idx' = 1
         /\ sent' = snt
    ELSE /\ all_bookings' = L
         /\ idx' = j
         /\ IF day_due(L[j], t)
            THEN sent' = Dispatch(snt, L[j].id, "day") /\ schedPc' = "day_send"
            ELSE IF hour_due(L[j], t)
            THEN sent' = Dispatch(snt, L[j].id, "hour") /\ schedPc' = "hour_send"
            ELSE sent' = Dispatch(snt, L[j].id, "admin") /\ schedPc' = "admin_send"

RunLoop(L, i, t) == RunLoopFrom(sent, L, i, t)

\* if 0.9 <= hours_diff <= 1.1: await send_admin_reminder(booking)
AdminPartFrom(snt) ==
    IF admin_due(all_bookings[idx], now)
    THEN /\ sent' = Dispatch(snt, all_bookings[idx].id, "admin")
         /\ schedPc' = "admin_send"
         /\ UNCHANGED <<all_bookings, idx>>
    ELSE RunLoopFrom(snt, all_bookings, idx + 1, now)

AdminPart == AdminPartFrom(sent)

\* the nights the model looks at: 31.03 -> 01.04 and 01.04 -> 02.04
NightStarts == {NightBase + k * UnitsPerDay : k \in {1, 2}}

\* the scan keeps going while the clock stays inside a modelled stretch: the
\* afternoon of a day, or one of the nights
InHorizon(t) ==
    \/ /\ StartBase <= t % UnitsPerDay
       /\ t % UnitsPerDay < StartBase + (MaxTicks + 1) * TickInterval
    \/ \E n \in NightStarts : n <= t /\ t < n + (MaxTicks + 1) * TickInterval

\* the first pass of the loop, right after startup
scan_start ==
    /\ schedPc = "start"
    /\ RunLoop(get_confirmed_bookings(store), 1, now)
    /\ UNCHANGED <<ADMIN_ID, storeVars, chatVars, now, restarts>>

\* asyncio.sleep(900) is over: the next pass
scan_wake ==
    /\ schedPc = "sleep"
    /\ InHorizon(now + TickInterval)
    /\ now' = now + TickInterval
    /\ RunLoop(get_confirmed_bookings(store), 1, now')
    /\ UNCHANGED <<ADMIN_ID, storeVars, chatVars, restarts>>

\* db.get_confirmed_bookings() raises in the first pass: the outer except
\* logs the error and the task sleeps
scan_start_failed ==
    /\ schedPc = "start"
    /\ schedPc' = "sleep"
    /\ UNCHANGED <<ADMIN_ID, storeVars, chatVars, now, all_bookings, idx, sent,
                   restarts>>

\* an outer except that ends the task
scan_wake_failed_ending_task ==
    /\ schedPc = "sleep"
    /\ InHorizon(now + TickInterval)
    /\ now' = now + TickInterval
    /\ schedPc' = "ended"
    /\ UNCHANGED <<ADMIN_ID, storeVars, chatVars, all_bookings, idx, sent, restarts>>

\* db.get_confirmed_bookings() raises in a later pass: logged, and the task
\* sleeps again
scan_wake_failed ==
    /\ schedPc = "sleep"
    /\ InHorizon(now + TickInterval)
    /\ now' = now + TickInterval
    /\ UNCHANGED <<ADMIN_ID, storeVars, chatVars, schedPc, all_bookings, idx, sent,
                   restarts>>

\* send_day_reminder returned (it swallows its own exceptions): mark the flag
after_day_send ==
    /\ schedPc = "day_send"
    /\ store' = mark_reminder_sent(store, all_bookings[idx].id, "day")
    /\ AdminPart
    /\ UNCHANGED <<ADMIN_ID, nextId, chatVars, now, restarts>>

\* send_hour_reminder returned: mark the flag
after_hour_send ==
    /\ schedPc = "hour_send"
    /\ store' = mark_reminder_sent(store, all_bookings[idx].id, "hour")
    /\ AdminPart
    /\ UNCHANGED <<ADMIN_ID, nextId, chatVars, now, restarts>>

\* bot.send_message raised inside send_day_reminder: the except clause of
\* send_day_reminder logs the error, the call returns normally and
\* check_reminders goes on as after a delivered reminder
after_day_send_failed ==
    /\ schedPc = "day_send"
    /\ store' = mark_reminder_sent(store, all_bookings[idx].id, "day")
    /\ AdminPartFrom(Dispatch(sent, all_bookings[idx].id, "day_failed"))
    /\ UNCHANGED <<ADMIN_ID, nextId, chatVars, now, restarts>>

\* the same inside send_hour_reminder
after_hour_send_failed ==
    /\ schedPc = "hour_send"
    /\ store' = mark_reminder_sent(store, all_bookings[idx].id, "hour")
    /\ AdminPartFrom(Dispatch(sent, all_bookings[idx].id, "hour_failed"))
    /\ UNCHANGED <<ADMIN_ID, nextId, chatVars, now, restarts>>

\* send_admin_reminder returned: the next booking
after_admin_send ==
    /\ schedPc = "admin_send"
    /\ RunLoop(all_bookings, idx + 1, now)
    /\ UNCHANGED <<ADMIN_ID, storeVars, chatVars, now, restarts>>

\* bot.py main(): the process is stopped while the scheduler sleeps and is
\* started again d units later; the table survives, MemoryStorage does not
restart(d) ==
    /\ schedPc = "sleep"
    /\ InflightCount = 0
    /\ restarts < MaxRestarts
    /\ InHorizon(now + d)
    /\ now' = now + d
    /\ schedPc' = "start"
    /\ fsm' = [u \in Users |-> Cleared]
    /\ restarts' = restarts + 1
    /\ UNCHANGED <<ADMIN_ID, storeVars, inflight, all_bookings, idx, sent>>

check_reminders ==
    \/ scan_start
    \/ scan_wake
    \/ after_day_send
    \/ after_hour_send
    \/ after_admin_send

\* ------------------------------------------------------ specifications
Statuses == {"pending", "confirmed", "rejected"}

InitChat ==
    /\ fsm = [u \in Users |-> Cleared]
    /\ inflight = [k \in Tasks |-> 0]

InitSched ==
    /\ schedPc = "start"
    /\ all_bookings = << >>
    /\ idx = 1
    /\ sent = [k \in Ids \X Kinds |-> 0]
    /\ restarts = 0

\* the bot starts on an empty table
Init ==
    /\ ADMIN_ID \in {AdminUser, NoAdmin}
    /\ store = << >>
    /\ nextId = 1
    /\ now = 0
    /\ InitChat
    /\ InitSched

\* the slot buttons are pressed by the users other than the administrator
CustomerFlow ==
    \E u \in Users \ {ADMIN_ID} :
        \/ start_booking(u)
        \/ \E d \in InputDates, h \in InputHours :
              \/ process_booking_taken(u, d, h)
              \/ process_booking_created(u, d, h)
        \/ process_booking_resume(u)

AdminDecisions ==
    \/ \E u \in Users :
          \/ confirm_booking_denied(u)
          \/ reject_booking_denied(u)
          \/ delete_confirm_denied(u)
    \/ \E u \in Users, i \in Ids :
          \/ confirm_booking_not_found(u, i)
          \/ confirm_booking(u, i)
          \/ reject_booking_not_found(u, i)
          \/ reject_booking(u, i)
          \/ delete_confirm_not_found(u, i)
          \/ delete_confirm(u, i)

ManualEntry ==
    \E u \in Users :
        \/ cmd_add_booking_denied(u)
        \/ cmd_add_booking(u)
        \/ process_admin_user_id_invalid(u)
        \/ \E x \in InputUserIds : process_admin_user_id(u, x)
        \/ process_admin_username(u)
        \/ process_admin_name(u)
        \/ process_admin_booking_type(u)
        \/ process_admin_date_invalid(u)
        \/ \E d \in InputDates : process_admin_date(u, d)
        \/ process_admin_time_invalid(u)
        \/ \E t \in InputTimes :
              \/ process_admin_time_taken(u, t)
              \/ process_admin_time_created(u, t)
        \/ process_admin_time_resume(u)
        \/ admin_cancel_booking(u)

Next == CustomerFlow \/ AdminDecisions \/ ManualEntry

\* the manual entry with the times of set T typed
ManualEntryTyping(T) ==
    \E u \in Users :
        \/ cmd_add_booking_denied(u)
        \/ cmd_add_booking(u)
        \/ process_admin_user_id_invalid(u)
        \/ \E x \in InputUserIds : process_admin_user_id(u, x)
        \/ process_admin_username(u)
        \/ process_admin_name(u)
        \/ process_admin_booking_type(u)
        \/ process_admin_date_invalid(u)
        \/ \E d \in InputDates : process_admin_date(u, d)
        \/ process_admin_time_invalid(u)
        \/ \E t \in T :
              \/ process_admin_time_taken(u, t)
              \/ process_admin_time_created(u, t)
        \/ process_admin_time_resume(u)
        \/ admin_cancel_booking(u)

\* the bot with an administrator who types times of any kind
NextEntry == CustomerFlow \/ AdminDecisions \/ ManualEntryTyping(EntryTimes)

SpecEntry == Init /\ [][NextEntry]_vars

Spec == Init /\ [][Next]_vars

\* the handlers of the admin panel that read the table
AdminPanel ==
    \E u \in Users :
        \/ admin_manual_booking_denied(u)
        \/ admin_manual_booking(u)
        \/ cmd_admin_denied(u)
        \/ cmd_admin(u)
        \/ cmd_bookings_denied(u)
        \/ cmd_bookings(u)
        \/ admin_delete_menu_denied(u)
        \/ admin_delete_menu(u)
        \/ admin_today_denied(u)
        \/ admin_today(u)
        \/ admin_week_denied(u)
        \/ admin_week(u)
        \/ admin_all_denied(u)
        \/ admin_all(u)
        \/ admin_pending_denied(u)
        \/ admin_pending(u)
        \/ admin_delete_booking_denied(u)
        \/ \E i \in Ids :
              \/ admin_delete_booking_not_found(u, i)
              \/ admin_delete_booking(u, i)

\* the whole bot without the scheduler, admin panel included
NextAccess == Next \/ AdminPanel

SpecAccess == Init /\ [][NextAccess]_vars

\* The scheduler on a table that already holds bookings, with the admin
\* deciding and deleting while it runs.
\* the phase of the first tick inside the sleep interval
StartPhases == {0, 3, 5}

StartNows == {StartBase + k * UnitsPerDay + p : k \in 0..2, p \in StartPhases}
SchedDates == {Calendar[1], Calendar[2], Calendar[3]}
SchedIds == {1, 2}

\* booking 1 is confirmed when the scheduler starts, booking 2 has any status
InitRows(i) ==
    [id : {i}, user_id : {2}, selected_date : SchedDates,
     selected_time : {<<15, 0>>},
     status : IF i = 1 THEN {"confirmed"} ELSE Statuses,
     reminder_day_sent : {FALSE}, reminder_hour_sent : {FALSE}]

SlotsExclusive(s) ==
    \A i, j \in DOMAIN s :
        (/\ i # j
         /\ s[i].status \in Occupying /\ s[j].status \in Occupying
         /\ s[i].selected_date = s[j].selected_date)
        => s[i].selected_time # s[j].selected_time

InitSchedSpec ==
    /\ ADMIN_ID \in {AdminUser, NoAdmin}
    /\ store \in {s \in [SchedIds -> UNION {InitRows(i) : i \in SchedIds}] :
                    /\ \A i \in SchedIds : s[i].id = i
                    /\ SlotsExclusive(s)}
    /\ nextId = 3
    /\ now \in StartNows
    /\ InitChat
    /\ InitSched

\* the scheduler running on while the admin decides on bookings
NextSched ==
    \/ check_reminders
    \/ AdminDecisions

SpecSched == InitSchedSpec /\ [][NextSched]_vars

\* the scheduler alone: nobody decides or deletes while it runs
SpecTicks == InitSchedSpec /\ [][check_reminders]_vars

\* the same, with the process stopped while the scheduler sleeps and started
\* again after a downtime
NextRestart ==
    \/ NextSched
    \/ \E d \in 0..MaxDowntime : restart(d)

SpecRestart == InitSchedSpec /\ [][NextRestart]_vars

\* The scheduler running through a night, over bookings that start at 00:30
\* (a time the manual-entry flow accepts)
NightDates == {Calendar[3], Calendar[4], Calendar[5]}

NightRows(i) ==
    [id : {i}, user_id : {2}, selected_date : NightDates,
     selected_time : {<<0, 30>>},
     status : IF i = 1 THEN {"confirmed"} ELSE Statuses,
     reminder_day_sent : {FALSE}, reminder_hour_sent : {FALSE}]

InitNight ==
    /\ ADMIN_ID \in {AdminUser, NoAdmin}
    /\ store \in {s \in [SchedIds -> UNION {NightRows(i) : i \in SchedIds}] :
                    /\ \A i \in SchedIds : s[i].id = i
                    /\ SlotsExclusive(s)}
    /\ nextId = 3
    /\ now \in {n + p : n \in NightStarts, p \in StartPhases}
    /\ InitChat
    /\ InitSched

SpecNight == InitNight /\ [][check_reminders]_vars

\* The scheduler over a table that holds a booking whose date is no calendar
\* date (process_admin_date accepts any DD.MM shaped text), with sends that
\* fail
BadDate == <<30, 13>>

FailRows(i) ==
    [id : {i}, user_id : {2}, selected_date : SchedDates \cup {BadDate},
     selected_time : {<<15, 0>>},
     status : IF i = 1 THEN {"confirmed"} ELSE Statuses,
     reminder_day_sent : {FALSE}, reminder_hour_sent : {FALSE}]

InitFail ==
    /\ ADMIN_ID \in {AdminUser, NoAdmin}
    /\ store \in {s \in [SchedIds -> UNION {FailRows(i) : i \in SchedIds}] :
                    /\ \A i \in SchedIds : s[i].id = i
                    /\ SlotsExclusive(s)}
    /\ nextId = 3
    /\ now \in StartNows
    /\ InitChat
    /\ InitSched

NextFail ==
    \/ check_reminders
    \/ after_day_send_failed
    \/ after_hour_send_failed

SpecFail == InitFail /\ [][NextFail]_vars

\* The same with reads of the table that fail, and with the event loop
\* resuming the task whenever its sleep or its send is over
NextLive ==
    \/ NextFail
    \/ scan_start_failed
    \/ scan_wake_failed

SpecLive == InitFail /\ [][NextLive]_vars /\ WF_vars(NextLive)

\* mark_reminder_sent applied to any table, with any id (in the table or not)
\* and either kind
MarkIds == 1..(MaxId + 1)
MarkKinds == {"day", "hour"}

MarkRows(i) ==
    [id : {i}, user_id : {2}, selected_date : {Calendar[2]},
     selected_time : {<<15, 0>>}, status : Statuses,
     reminder_day_sent : {FALSE}, reminder_hour_sent : {FALSE}]

InitMark ==
    /\ ADMIN_ID = AdminUser
    /\ \E D \in SUBSET Ids :
          store \in {s \in [D -> UNION {MarkRows(i) : i \in D}] :
                        \A i \in D : s[i].id = i}
    /\ nextId = MaxId + 1
    /\ now = 0
    /\ InitChat
    /\ InitSched

NextMark ==
    \E i \in MarkIds, kind \in MarkKinds :
        /\ store' = mark_reminder_sent(store, i, kind)
        /\ UNCHANGED <<ADMIN_ID, nextId, chatVars, schedVars>>

SpecMark == InitMark /\ [][NextMark]_vars

\* The admin deciding on bookings of a table, each decision followed through
\* the notice to the customer, which is delivered or fails
InitNotify ==
    /\ ADMIN_ID = AdminUser
    /\ store \in {s \in [SchedIds -> UNION {InitRows(i) : i \in SchedIds}] :
                    /\ \A i \in SchedIds : s[i].id = i
                    /\ SlotsExclusive(s)}
    /\ nextId = 3
    /\ now = 0
    /\ InitChat
    /\ InitSched

NextNotify ==
    \/ \E u \in Users :
          \/ confirm_booking_denied(u)
          \/ reject_booking_denied(u)
    \/ \E u \in Users, i \in Ids :
          \/ confirm_booking_not_found(u, i)
          \/ confirm_booking_send(u, i)
          \/ reject_booking_not_found(u, i)
          \/ reject_booking_send(u, i)
          \/ delete_confirm_not_found(u, i)
          \/ delete_confirm(u, i)
    \/ \E i \in Ids :
          \/ decision_send_returned(i)
          \/ decision_send_failed(i)

SpecNotify == InitNotify /\ [][NextNotify]_vars

\* The admin reading the whole table, on tables whose rows keep their time of
\* creation: row i was created for the i-th day of the calendar, no later
\* than the rows with a larger id (two rows may be created within one second)
ListIds == 1..(MaxId + 1)
ListStamps == {0, 1}

ListRows(i) ==
    [id : {i}, user_id : {2}, selected_date : {Calendar[i]},
     selected_time : {<<15, 0>>}, status : Statuses,
     reminder_day_sent : {FALSE}, reminder_hour_sent : {FALSE},
     created_at : ListStamps]

InitListAll ==
    /\ ADMIN_ID = AdminUser
    /\ \E D \in SUBSET ListIds :
          store \in {s \in [D -> UNION {ListRows(i) : i \in D}] :
                        /\ \A i \in D : s[i].id = i
                        /\ \A i, j \in D : i < j => s[i].created_at <= s[j].created_at}
    /\ nextId = MaxId + 2
    /\ now = 0
    /\ InitChat
    /\ InitSched

NextListAll ==
    \/ AdminDecisions
    \/ \E u \in Users : admin_all_denied(u) \/ admin_all(u)

SpecListAll == InitListAll /\ [][NextListAll]_vars

\* The admin reading the bookings of a range of days and the customers being
\* shown the free slots, on tables with bookings on both sides of the end of
\* March, read on 30.03 or on 31.03
RangeDates == {Calendar[2], Calendar[3], Calendar[4]}
RangeTimes == {<<15, 0>>, <<18, 0>>}
RangeNows == {StartBase, StartBase + UnitsPerDay}

RangeRows(i) ==
    [id : {i}, user_id : {2}, selected_date : RangeDates,
     selected_time : RangeTimes, status : Statuses,
     reminder_day_sent : {FALSE}, reminder_hour_sent : {FALSE}]

InitRange ==
    /\ ADMIN_ID = AdminUser
    /\ store \in {s \in [Ids -> UNION {RangeRows(i) : i \in Ids}] :
                    /\ \A i \in Ids : s[i].id = i
                    /\ SlotsExclusive(s)}
    /\ nextId = MaxId + 1
    /\ now \in RangeNows
    /\ InitChat
    /\ InitSched

NextRange ==
    \/ AdminDecisions
    \/ \E u \in Users :
          \/ admin_today_denied(u)
          \/ admin_today(u)
          \/ admin_week_denied(u)
          \/ admin_week(u)
          \/ start_booking(u)

SpecRange == InitRange /\ [][NextRange]_vars

\* The customers asking for slots, each request followed through the
\* notification of the admin, which is delivered or fails, to the answer the
\* customer gets; the admin confirms and rejects meanwhile
RequestHours == {15, 18}

NextRequest ==
    \/ \E u \in Users \ {ADMIN_ID} :
          \/ start_booking(u)
          \/ \E d \in InputDates, h \in RequestHours :
                \/ process_booking_taken(u, d, h)
                \/ process_booking_unnotified(u, d, h)
                \/ process_booking_notify(u, d, h)
          \/ \E i \in Ids :
                \/ process_booking_notified(u, i)
                \/ process_booking_notify_failed(u, i)
    \/ \E u \in Users, i \in Ids :
          \/ confirm_booking(u, i)
          \/ reject_booking(u, i)

SpecRequest == Init /\ [][NextRequest]_vars

\* The manual entry with a requester id that is 0 or the id of a user, a
\* typed username, and slots at two times
ManualUserIds == {UnknownUser, 2}
ManualNames == {"anna"}
ManualTimes == {<<15, 0>>, <<18, 0>>}

NextManual ==
    \E u \in Users :
        \/ cmd_add_booking_denied(u)
        \/ cmd_add_booking(u)
        \/ process_admin_user_id_invalid(u)
        \/ \E x \in ManualUserIds : process_admin_user_id(u, x)
        \/ \E n \in ManualNames : process_admin_username_typed(u, n)
        \/ process_admin_name(u)
        \/ process_admin_booking_type(u)
        \/ process_admin_date_invalid(u)
        \/ \E d \in InputDates : process_admin_date(u, d)
        \/ process_admin_time_invalid(u)
        \/ \E t \in ManualTimes :
              \/ process_admin_time_taken(u, t)
              \/ process_admin_time_named(u, t)
        \/ process_admin_time_resume(u)
        \/ admin_cancel_booking(u)

SpecManual == Init /\ [][NextManual]_vars

\* ------------------------------------------------------------------ claims
\* the ids of the pending or confirmed bookings that hold slot (date, time)
SlotHolders(s, date, time) ==
    {i \in DOMAIN s : /\ s[i].selected_date = date
                      /\ s[i].selected_time = time
                      /\ s[i].status \in {"pending", "confirmed"}}

SlotOf(r) == <<r.selected_date, r.selected_time>>

\* C1: in every reachable state each (date, time) pair has at most one
\* booking whose status is pending or confirmed.
C1_SlotHeldAtMostOnce ==
    \A i \in DOMAIN store :
        Cardinality(SlotHolders(store, store[i].selected_date, store[i].selected_time)) <= 1

\* C2: whatever the interleaving of two creation attempts for one slot, a
\* step inserts at most one booking, inserts it only into a slot that no
\* pending or confirmed booking held when the step began (an attempt on a held
\* slot inserts nothing), and the new booking is then the only holder.
C2_OneInsertPerFreeSlot ==
    [][\A i \in DOMAIN store' \ DOMAIN store :
          /\ DOMAIN store' = DOMAIN store \cup {i}
          /\ SlotHolders(store, store'[i].selected_date, store'[i].selected_time) = {}
          /\ SlotHolders(store', store'[i].selected_date, store'[i].selected_time) = {i}
          /\ \A j \in DOMAIN store : store'[j] = store[j]]_vars

\* C2 witness: a customer's creation is suspended in the admin notification,
\* its booking is the only one in the slot, and the admin's manual entry for
\* the same date is waiting for the time.
C2_Witness ==
    \E u \in Users, v \in Users, i \in DOMAIN store :
        /\ inflight[<<"process_booking", u>>] > 0
        /\ u # v
        /\ store[i].user_id = u
        /\ store[i].status = "pending"
        /\ fsm[v].state = "waiting_for_time"
        /\ fsm[v].data.selected_date = store[i].selected_date
        /\ SlotHolders(store, store[i].selected_date, store[i].selected_time) = {i}

\* C3: from its creation on, and as long as it is neither rejected (by
\* reject_booking) nor deleted (by delete_confirm), a booking keeps its date
\* and time and is_slot_available is false for them.
C3_SlotTakenUntilReleased ==
    [][\A i \in Ids :
          /\ i \in DOMAIN store' \ DOMAIN store
                => ~ is_slot_available(store', store'[i].selected_date,
                                       store'[i].selected_time)
          /\ (i \in DOMAIN store /\ store[i].status \in {"pending", "confirmed"})
                => \/ i \notin DOMAIN store' /\ \E u \in Users : delete_confirm(u, i)
                   \/ /\ i \in DOMAIN store'
                      /\ store'[i].status = "rejected"
                      /\ \E u \in Users : reject_booking(u, i)
                   \/ /\ i \in DOMAIN store'
                      /\ SlotOf(store'[i]) = SlotOf(store[i])
                      /\ ~ is_slot_available(store', store[i].selected_date,
                                             store[i].selected_time)]_vars

\* C3 witness: a booking created as pending has since been confirmed and
\* still holds its slot.
C3_Witness ==
    \E i \in DOMAIN store :
        /\ store[i].user_id # UnknownUser
        /\ store[i].status = "confirmed"
        /\ ~ is_slot_available(store, store[i].selected_date, store[i].selected_time)
        /\ nextId > MaxId

\* C4: right after reject_booking or delete_confirm acted on a booking,
\* is_slot_available is true for its (date, time) unless another pending or
\* confirmed booking holds that slot.
\* (A step of one of the two handlers that leaves the table as it was leaves
\* every variable as it was, so only steps that change the table are looked
\* at.)
C4_ReleaseFreesSlot ==
    [][store' # store
       => \A u \in Users, i \in DOMAIN store :
             (reject_booking(u, i) \/ delete_confirm(u, i))
             => \/ is_slot_available(store', store[i].selected_date,
                                      store[i].selected_time)
                \/ SlotHolders(store', store[i].selected_date,
                               store[i].selected_time) \ {i} # {}]_vars

\* C4 witness: a booking was deleted (its cancellation notice went out) and
\* its slot is free again while another booking was rejected.
C4_Witness ==
    \E i \in Ids, j \in DOMAIN store :
        /\ i \notin DOMAIN store
        /\ sent[<<i, "cancel">>] = 1
        /\ store[j].status = "rejected"
        /\ is_slot_available(store, store[j].selected_date, store[j].selected_time)

\* ------------------------------------------------- claims on the scheduler
\* a step of check_reminders (a scan, or the loop going on after a send)
SchedStep ==
    /\ schedPc' # "start"
    /\ schedPc = "start" \/ schedPc' # schedPc \/ idx' # idx \/ now' # now

ScanStep == SchedStep /\ schedPc \in {"start", "sleep"}

\* the list the tick of this step works on
TickList == IF schedPc \in {"start", "sleep"} THEN get_confirmed_bookings(store)
            ELSE all_bookings

\* the positions of TickList the for loop arrives at during this step
Handled ==
    IF SchedStep
    THEN (IF schedPc \in {"start", "sleep"} THEN 1 ELSE idx + 1)
         .. (IF schedPc' = "sleep" THEN Len(TickList) ELSE idx')
    ELSE {}

DispatchedNow(i, kind) == sent'[<<i, kind>>] = sent[<<i, kind>>] + 1
NotDispatchedNow(i, kind) == sent'[<<i, kind>>] = sent[<<i, kind>>]

\* 23 <= H <= 25 and 0.9 <= H <= 1.1 for H = h / UnitsPerHour hours
ClaimDayWindow(h) == 23 * UnitsPerHour <= h /\ h <= 25 * UnitsPerHour
ClaimHourWindow(h) == 9 * UnitsPerHour <= 10 * h /\ 10 * h <= 11 * UnitsPerHour

\* H = 25 h, 24 h and 23.5 h
H25 == 25 * UnitsPerHour
H24 == 24 * UnitsPerHour
H23_5 == (47 * UnitsPerHour) \div 2

\* the booking's calendar day is before the day of instant t
DatedBefore(b, t) == DayIndexOf(b.selected_date) < t \div UnitsPerDay

\* C5: a customer day or hour reminder is dispatched at most once per
\* booking, and no step dispatches one for a booking whose flag of that kind
\* is already set.
C5_CustomerReminderOnce ==
    /\ [](\A i \in Ids : sent[<<i, "day">>] <= 1 /\ sent[<<i, "hour">>] <= 1)
    /\ [][\A i \in DOMAIN store :
             /\ store[i].reminder_day_sent => NotDispatchedNow(i, "day")
             /\ store[i].reminder_hour_sent => NotDispatchedNow(i, "hour")]_vars

\* C5 witness: after a restart a second tick fell into the hour window (the
\* admin was reminded twice) and the customer hour reminder went out once.
C5_Witness ==
    \E i \in DOMAIN store :
        /\ store[i].reminder_hour_sent
        /\ sent[<<i, "hour">>] = 1
        /\ sent[<<i, "admin">>] = 2
        /\ schedPc = "sleep"

\* C6: with ticks every 15 minutes and no restart, the tick at which the
\* time-to-event of a confirmed booking with dayReminderSent false has just
\* dropped to 25 h or below lies inside 23 <= H <= 25 and dispatches the
\* customer day reminder for it, whatever the booking date and today's date.
C6_DayReminderNotMissed ==
    [][\A j \in Handled :
          LET b == TickList[j]
              h == hours_diff(b, now')
          IN  (/\ restarts = 0
               /\ ~ b.reminder_day_sent
               /\ h <= H25
               /\ h + TickInterval > H25)
              => (ClaimDayWindow(h) /\ DispatchedNow(b.id, "day"))]_vars

\* C7: for a confirmed booking the tick does not skip as past-dated, the day
\* reminder is dispatched iff 23 <= H <= 25 and dayReminderSent is false, the
\* hour reminder iff 0.9 <= H <= 1.1 and hourReminderSent is false; when the
\* send has returned, the flag of the (still stored) booking is true.
C7_WindowsExactly ==
    [][/\ \A j \in Handled :
             LET b == TickList[j]
                 h == hours_diff(b, now')
             IN  Evaluated(b, now')
                 => /\ DispatchedNow(b.id, "day")
                          <=> (ClaimDayWindow(h) /\ ~ b.reminder_day_sent)
                    /\ DispatchedNow(b.id, "hour")
                          <=> (ClaimHourWindow(h) /\ ~ b.reminder_hour_sent)
       /\ (SchedStep /\ schedPc = "day_send" /\ all_bookings[idx].id \in DOMAIN store')
             => store'[all_bookings[idx].id].reminder_day_sent
       /\ (SchedStep /\ schedPc = "hour_send" /\ all_bookings[idx].id \in DOMAIN store')
             => store'[all_bookings[idx].id].reminder_hour_sent]_vars

\* C7 witness: a day reminder went out at the closed upper end H = 25 h and
\* the flag is set.
C7_Witness ==
    \E i \in DOMAIN store :
        /\ store[i].reminder_day_sent
        /\ sent[<<i, "day">>] = 1
        /\ hours_diff(store[i], now) = DayHi
        /\ schedPc = "sleep"

\* C8 (as stated): a tick that sees a confirmed booking with dayReminderSent
\* false at exactly H = 25 h dispatches no reminder for it, the day reminder
\* is dispatched at the tick where H = 24 h, and none at H = 23.5 h.
C8_NothingAt25 ==
    [][\A j \in Handled :
          LET b == TickList[j]
              h == hours_diff(b, now')
          IN  /\ (h = H25 /\ ~ b.reminder_day_sent)
                    => \A k \in {"day", "hour", "admin"} : NotDispatchedNow(b.id, k)
              /\ (h = H24 /\ ~ b.reminder_day_sent) => DispatchedNow(b.id, "day")
              /\ h = H23_5 => NotDispatchedNow(b.id, "day")]_vars

\* C8 (amended): a tick that evaluates (does not skip as past-dated) a
\* confirmed booking with dayReminderSent false at exactly H = 25 h dispatches
\* the day reminder for it; a booking whose day reminder has been dispatched
\* gets no further one at the ticks where H = 24 h and H = 23.5 h.
C8_SentAt25 ==
    [][\A j \in Handled :
          LET b == TickList[j]
              h == hours_diff(b, now')
          IN  Evaluated(b, now')
              => /\ (h = H25 /\ ~ b.reminder_day_sent) => DispatchedNow(b.id, "day")
                 /\ (h \in {H24, H23_5} /\ sent[<<b.id, "day">>] >= 1)
                       => NotDispatchedNow(b.id, "day")]_vars

\* C8 witness: the scheduler ran on without a restart to the tick where H =
\* 23.5 h of a booking still confirmed, whose day reminder went out once.
C8_Witness ==
    \E i \in DOMAIN store :
        /\ store[i].status = "confirmed"
        /\ store[i].reminder_day_sent
        /\ sent[<<i, "day">>] = 1
        /\ hours_diff(store[i], now) = H23_5
        /\ restarts = 0
        /\ schedPc = "sleep"

\* C9: no step dispatches a customer day reminder, a customer hour reminder
\* or an admin reminder for a booking whose date is before today (by the
\* calendar or by the tick's own string comparison), whatever its flags.
C9_PastNeverReminded ==
    [][\A i \in Ids, k \in {"day", "hour", "admin"} :
          ~ NotDispatchedNow(i, k)
          => LET b == all_bookings'[idx']
             IN  /\ b.id = i
                 /\ ~ DatedBefore(b, now')
                 /\ ~ StrLess(b.selected_date, strftime_date(now'))]_vars

\* C9 witness: a tick has run on 01.04 over a confirmed booking dated 31.03,
\* which the string comparison does not skip, and nothing was sent for it.
C9_Witness ==
    \E i \in DOMAIN store :
        /\ ADMIN_ID = NoAdmin
        /\ schedPc = "sleep"
        /\ store[i].status = "confirmed"
        /\ DatedBefore(store[i], now)
        /\ ~ SkippedAsPast(store[i], now)
        /\ \A k \in Kinds : sent[<<i, k>>] = 0

\* C10: the list a tick works on holds exactly rows that are confirmed when
\* the tick reads the table, and only the bookings of that list get a
\* reminder or a flag change during the tick.
C10_OnlyConfirmedAtTickStart ==
    [][/\ ScanStep
          => \A j \in DOMAIN all_bookings' :
                LET r == all_bookings'[j]
                IN  r.id \in DOMAIN store /\ store[r.id] = r /\ r.status = "confirmed"
       /\ \A i \in Ids :
             (\/ \E k \in {"day", "hour", "admin"} : ~ NotDispatchedNow(i, k)
              \/ /\ i \in DOMAIN store /\ i \in DOMAIN store'
                 /\ \/ store'[i].reminder_day_sent # store[i].reminder_day_sent
                    \/ store'[i].reminder_hour_sent # store[i].reminder_hour_sent)
             => IF schedPc \in {"start", "sleep"}
                THEN i \in DOMAIN store /\ store[i].status = "confirmed"
                ELSE \E j \in DOMAIN all_bookings :
                        all_bookings[j].id = i /\ all_bookings[j].status = "confirmed"]_vars

\* C10 witness: a tick has run while a pending booking was inside the day
\* window and not dated before today; it got no reminder and no flag.
C10_Witness ==
    \E i \in DOMAIN store :
        /\ ADMIN_ID = NoAdmin
        /\ schedPc = "sleep"
        /\ store[i].status = "pending"
        /\ InDayWindow(hours_diff(store[i], now))
        /\ ~ SkippedAsPast(store[i], now)
        /\ ~ store[i].reminder_day_sent
        /\ \A k \in Kinds : sent[<<i, k>>] = 0

\* the positions of TickList the for loop leaves behind during this step
LeftBehind ==
    IF SchedStep
    THEN (IF schedPc \in {"start", "sleep"} THEN 1 ELSE idx)
         .. (IF schedPc' = "sleep" THEN Len(TickList) ELSE idx' - 1)
    ELSE {}

\* C11: with an administrator configured, a tick does not leave a confirmed
\* booking with 0.9 <= H <= 1.1 behind without having dispatched the admin
\* reminder for it, whatever hourReminderSent is (the loop leaves it right
\* after the admin send).
C11_AdminRemindedEachTick ==
    [][ADMIN_ID # NoAdmin
       => \A j \in LeftBehind :
             LET b == TickList[j] IN
             (IsCalendarDate(b.selected_date)
                 /\ ClaimHourWindow(hours_diff(b, now')))
             => (schedPc = "admin_send" /\ j = idx)]_vars

\* the positions of TickList the for loop passes during this step without
\* sending anything for them
PassedOver ==
    IF SchedStep
    THEN (IF schedPc \in {"start", "sleep"} THEN 1 ELSE idx + 1)
         .. (IF schedPc' = "sleep" THEN Len(TickList) ELSE idx' - 1)
    ELSE {}

\* the booking has a calendar date and, by H and its flags as the tick read
\* them, a reminder is to be sent for it (the bookings that the date
\* comparison of the tick takes for past ones are the matter of C6, C11)
EligibleAt(b, t) ==
    /\ IsCalendarDate(b.selected_date)
    /\ ~ SkippedAsPast(b, t)
    /\ \/ ClaimDayWindow(hours_diff(b, t)) /\ ~ b.reminder_day_sent
       \/ ClaimHourWindow(hours_diff(b, t))
          /\ (~ b.reminder_hour_sent \/ ADMIN_ID # NoAdmin)

\* C12: a failed send or a booking whose date does not parse does not end the
\* tick: the loop passes no eligible confirmed booking of its list without a
\* send, whatever happened to the bookings before it, and after a failed send
\* it goes on to the next eligible booking of the list.
C12_FailureDoesNotStopTick ==
    [][\A j \in PassedOver : ~ EligibleAt(TickList[j], now')]_vars

\* the tick sends the day reminder for the second booking of its list after
\* the hour reminder for the first one failed
C12_Witness ==
    /\ schedPc = "day_send"
    /\ idx = 2
    /\ sent[<<all_bookings[1].id, "hour_failed">>] > 0

\* the tick sends for the second booking of its list after the date of the
\* first one failed to parse
C12_WitnessUnparsable ==
    /\ schedPc \in {"day_send", "hour_send"}
    /\ idx = 2
    /\ Unparsable(all_bookings[1])
    /\ ~ SkippedAsPast(all_bookings[1], now)


\* C13: the step in which the send of a customer day or hour reminder fails
\* does not set the reminder-sent flag of that booking.
C13_FailedSendLeavesFlag ==
    [][\A i \in DOMAIN store \cap DOMAIN store' :
          /\ sent'[<<i, "day_failed">>] > sent[<<i, "day_failed">>]
             => store'[i].reminder_day_sent = store[i].reminder_day_sent
          /\ sent'[<<i, "hour_failed">>] > sent[<<i, "hour_failed">>]
             => store'[i].reminder_hour_sent = store[i].reminder_hour_sent]_vars

\* row b is row a with, at most, reminder flags turned from false to true
FlagsRaisedOnly(a, b) ==
    /\ b = [a EXCEPT !.reminder_day_sent = b.reminder_day_sent,
                     !.reminder_hour_sent = b.reminder_hour_sent]
    /\ a.reminder_day_sent => b.reminder_day_sent
    /\ a.reminder_hour_sent => b.reminder_hour_sent

\* C14: a step of the scan inserts no booking, deletes none and changes no
\* status, date, time or requester; all it changes in the table is a
\* reminder-sent flag of an existing booking, from false to true.
C14_ScanWritesFlagsOnly ==
    [][SchedStep
       => /\ DOMAIN store' = DOMAIN store
          /\ \A i \in DOMAIN store : FlagsRaisedOnly(store[i], store'[i])]_vars

\* a tick has set the day flag of a booking and gone to sleep, both bookings
\* still in the table
C14_Witness ==
    \E i \in DOMAIN store :
        /\ store[i].reminder_day_sent
        /\ ~ store[i].reminder_hour_sent
        /\ sent[<<i, "day">>] = 1
        /\ schedPc = "sleep"
        /\ Cardinality(DOMAIN store) = 2

\* C16: no step turns a reminder-sent flag of a booking that stays in the
\* table from true to false, whether the step confirms, rejects or scans.
C16_FlagsNeverReset ==
    [][\A i \in DOMAIN store \cap DOMAIN store' :
          /\ store[i].reminder_day_sent => store'[i].reminder_day_sent
          /\ store[i].reminder_hour_sent => store'[i].reminder_hour_sent]_vars

\* a booking reminded while confirmed was rejected afterwards and kept its flag
C16_Witness ==
    \E i \in DOMAIN store :
        /\ store[i].reminder_day_sent
        /\ store[i].status = "rejected"

Decided == {"confirmed", "rejected"}

\* C17: no step takes a booking whose status is confirmed or rejected back to
\* pending.
C17_NeverBackToPending ==
    [][\A i \in DOMAIN store \cap DOMAIN store' :
          store[i].status \in Decided => store'[i].status # "pending"]_vars

\* a booking was rejected, its slot was requested again and the second
\* booking confirmed: both decided bookings are in the table
C17_Witness ==
    \E i, j \in DOMAIN store :
        /\ i < j
        /\ SlotOf(store[i]) = SlotOf(store[j])
        /\ store[i].status = "rejected"
        /\ store[j].status = "confirmed"

\* C18: every change of a booking's status starts from pending.
C18_DecisionsFromPendingOnly ==
    [][\A i \in DOMAIN store \cap DOMAIN store' :
          store'[i].status # store[i].status => store[i].status = "pending"]_vars

\* table b is table a with, at most, flag `kind` of booking i changed
OnlyNamedFlag(a, b, i, kind) ==
    /\ DOMAIN b = DOMAIN a
    /\ \A j \in DOMAIN a \ {i} : b[j] = a[j]
    /\ i \in DOMAIN a
       => b[i] = IF kind = "day"
                 THEN [a[i] EXCEPT !.reminder_day_sent = b[i].reminder_day_sent]
                 ELSE [a[i] EXCEPT !.reminder_hour_sent = b[i].reminder_hour_sent]
    /\ i \notin DOMAIN a => b = a

\* C15: for every table, id and kind in {day, hour}, marking twice gives the
\* table that marking once gives, and marking changes nothing but the named
\* flag of the named booking (nothing at all when the id is not in the table).
C15_MarkIdempotent ==
    \A i \in MarkIds, kind \in MarkKinds :
        LET once == mark_reminder_sent(store, i, kind) IN
        /\ mark_reminder_sent(once, i, kind) = once
        /\ OnlyNamedFlag(store, once, i, kind)

\* a table on which both kinds were marked for one booking, while another id
\* is not in it
C15_Witness ==
    /\ \E i \in DOMAIN store : store[i].reminder_day_sent /\ store[i].reminder_hour_sent
    /\ MarkIds \ DOMAIN store # {}
    /\ \E j \in DOMAIN store : ~ store[j].reminder_day_sent /\ ~ store[j].reminder_hour_sent

\* requester u is not the configured administrator, or none is configured
NotAdministrator(u) == ADMIN_ID = NoAdmin \/ u # ADMIN_ID

\* every admin operation answers requester u with the denial
DenialAnswered(u) ==
    /\ ENABLED confirm_booking_denied(u)
    /\ ENABLED reject_booking_denied(u)
    /\ ENABLED admin_delete_booking_denied(u)
    /\ ENABLED delete_confirm_denied(u)
    /\ ENABLED cmd_add_booking_denied(u)
    /\ ENABLED admin_manual_booking_denied(u)
    /\ ENABLED cmd_admin_denied(u)
    /\ ENABLED cmd_bookings_denied(u)
    /\ ENABLED admin_delete_menu_denied(u)
    /\ ENABLED admin_today_denied(u)
    /\ ENABLED admin_week_denied(u)
    /\ ENABLED admin_all_denied(u)
    /\ ENABLED admin_pending_denied(u)

\* some admin operation invoked by requester u takes a branch other than the
\* denial
AdminBranchTaken(u) ==
    \/ \E i \in Ids : confirm_booking_not_found(u, i) \/ confirm_booking(u, i)
    \/ \E i \in Ids : reject_booking_not_found(u, i) \/ reject_booking(u, i)
    \/ \E i \in Ids : admin_delete_booking_not_found(u, i) \/ admin_delete_booking(u, i)
    \/ \E i \in Ids : delete_confirm_not_found(u, i) \/ delete_confirm(u, i)
    \/ cmd_add_booking(u)
    \/ admin_manual_booking(u)
    \/ cmd_admin(u)
    \/ cmd_bookings(u)
    \/ admin_delete_menu(u)
    \/ admin_today(u)
    \/ admin_week(u)
    \/ admin_all(u)
    \/ admin_pending(u)

\* an admin operation invoked by requester u, whatever its branch
AdminOperation(u) ==
    \/ confirm_booking_denied(u)
    \/ reject_booking_denied(u)
    \/ admin_delete_booking_denied(u)
    \/ delete_confirm_denied(u)
    \/ cmd_add_booking_denied(u)
    \/ admin_manual_booking_denied(u)
    \/ cmd_admin_denied(u)
    \/ cmd_bookings_denied(u)
    \/ admin_delete_menu_denied(u)
    \/ admin_today_denied(u)
    \/ admin_week_denied(u)
    \/ admin_all_denied(u)
    \/ admin_pending_denied(u)
    \/ AdminBranchTaken(u)

\* C19: in every reachable state, for a requester who is not the configured
\* administrator (or when none is configured), each admin operation (confirm,
\* reject, delete request, delete confirmation, the lists, the start of a
\* manual booking) takes its denial branch and no other, and no step of such
\* an operation changes the booking table or the requester's conversation
\* state.
C19_NonAdminDenied ==
    \A u \in Users :
        NotAdministrator(u)
        => /\ DenialAnswered(u)
           /\ ~ ENABLED AdminBranchTaken(u)
           /\ ~ ENABLED (AdminOperation(u) /\ (store' # store \/ fsm'[u] # fsm[u]))

\* an administrator is configured, another requester is in the middle of a
\* conversation and a pending booking waits for a decision
C19_Witness ==
    /\ ADMIN_ID # NoAdmin
    /\ \E u \in Users : NotAdministrator(u) /\ fsm[u].state = "waiting_for_date"
    /\ \E i \in DOMAIN store : store[i].status = "pending"

\* a confirm, reject, delete request or delete confirmation by requester u
\* that names booking i and finds it
FoundBranch(u, i) ==
    \/ confirm_booking(u, i)
    \/ reject_booking(u, i)
    \/ admin_delete_booking(u, i)
    \/ delete_confirm(u, i)

\* C20: in every reachable state, a slot request for a slot that a pending or
\* confirmed booking holds takes the "taken" branch of process_booking, a
\* manual entry for such a slot takes the "taken" branch of
\* process_admin_time, and a confirm, reject or delete by the administrator
\* that names an id not in the table takes the "not found" branch; each of
\* these branches answers the caller and none of them can change the table.
C20_FailuresLeaveTable ==
    /\ \A u \in Users, d \in InputDates, h \in InputHours :
          (fsm[u].state = "waiting_for_date" /\ SlotHolders(store, d, <<h, 0>>) # {})
          => /\ ENABLED process_booking_taken(u, d, h)
             /\ ~ ENABLED process_booking_created(u, d, h)
             /\ ~ ENABLED (process_booking_taken(u, d, h) /\ store' # store)
    /\ \A u \in Users, t \in InputTimes :
          (/\ fsm[u].state = "waiting_for_time"
           /\ SlotHolders(store, fsm[u].data.selected_date, t) # {})
          => /\ ENABLED process_admin_time_taken(u, t)
             /\ ~ ENABLED process_admin_time_created(u, t)
             /\ ~ ENABLED (process_admin_time_taken(u, t) /\ store' # store)
    /\ \A u \in Users, i \in Ids \ DOMAIN store :
          ~ NotAdministrator(u)
          => /\ ENABLED confirm_booking_not_found(u, i)
             /\ ENABLED reject_booking_not_found(u, i)
             /\ ENABLED admin_delete_booking_not_found(u, i)
             /\ ENABLED delete_confirm_not_found(u, i)
             /\ ~ ENABLED FoundBranch(u, i)
             /\ ~ ENABLED ((\/ confirm_booking_not_found(u, i)
                            \/ reject_booking_not_found(u, i)
                            \/ admin_delete_booking_not_found(u, i)
                            \/ delete_confirm_not_found(u, i)) /\ store' # store)

\* a customer is about to pick a slot and the administrator is about to type
\* a time while a booking holds the slot both can name, and an id that the
\* buttons can name is not in the table
C20_Witness ==
    /\ \E u \in Users : /\ fsm[u].state = "waiting_for_date"
                         /\ \E d \in InputDates, h \in InputHours :
                               SlotHolders(store, d, <<h, 0>>) # {}
    /\ \E a \in Users : /\ fsm[a].state = "waiting_for_time"
                         /\ \E t \in InputTimes :
                               SlotHolders(store, fsm[a].data.selected_date, t) # {}
    /\ Ids \ DOMAIN store # {}

\* the bookings entered by hand: the manual-entry flow stores the requester
\* id the administrator typed, and the ids it is fed here are no customer's
ManualBookings == {i \in DOMAIN store : store[i].user_id \in InputUserIds}

\* C21: in every reachable state, the states in which the manual-entry
\* handler is suspended in its answers included, no booking entered through
\* the manual-entry flow has status pending: no other handler and no scan
\* tick can see it pending.
C21_ManualNeverPending ==
    \A i \in ManualBookings : store[i].status # "pending"

\* the manual-entry handler has stored a booking and is still suspended in its
\* answer to the administrator
C21_Witness ==
    \E i \in ManualBookings, u \in Users :
        /\ store[i].status = "confirmed"
        /\ inflight[<<"process_admin_time", u>>] > 0

\* C22: a step removes a booking only as the delete confirmation of the
\* administrator for that booking; the confirmation can be given for every
\* booking in the table and removes it whatever its status; delete_booking
\* returns true exactly for the ids whose row it removes; an id that was
\* assigned and is no longer in the table never comes back.  (A delete
\* confirmation always changes the table, so only the steps that change it or
\* the record of sends are matched against delete_confirm.)
C22_OnlyDeleteConfirmRemoves ==
    [][/\ \A i \in DOMAIN store \ DOMAIN store' : \E u \in Users : delete_confirm(u, i)
       /\ \A i \in DOMAIN store :
             /\ ADMIN_ID # NoAdmin => ENABLED delete_confirm(ADMIN_ID, i)
             /\ ((store' # store \/ sent' # sent) /\ \E u \in Users : delete_confirm(u, i))
                => i \notin DOMAIN store'
       /\ \A i \in MarkIds :
             delete_booking_returns(store, i) <=> delete_booking(store, i) # store
       /\ \A i \in 1..(nextId - 1) : i \notin DOMAIN store => i \notin DOMAIN store']_vars

\* booking 1 was deleted and booking 2 created afterwards is in the table
C22_Witness ==
    /\ nextId = 3
    /\ DOMAIN store = {2}

\* C23: every booking is stored under its own id, below the next id to
\* assign; a step that creates a booking gives it an id that no booking had
\* before (at least the next id to assign, which then moves past it and never
\* moves back), and no step changes the id of a booking.
C23_IdsFreshAndFixed ==
    [][/\ \A i \in DOMAIN store : store[i].id = i /\ i < nextId
       /\ nextId' >= nextId
       /\ \A i \in DOMAIN store' \ DOMAIN store :
             /\ i >= nextId
             /\ i < nextId'
             /\ store'[i].id = i
       /\ \A i \in DOMAIN store \cap DOMAIN store' : store'[i].id = store[i].id]_vars

\* booking 2 was created after booking 1 had been deleted
C23_Witness ==
    /\ 1 \notin DOMAIN store
    /\ 2 \in DOMAIN store
    /\ store[2].id = 2

\* C24: the cancellation notice for a booking is dispatched in the step that
\* removes the booking, once if its requester id is not 0 and not at all if
\* it is 0, and in no other step: a second delete confirmation for the same
\* id, which finds no row, dispatches nothing.
C24_CancelNoticeOnce ==
    [][\A i \in Ids :
          IF i \in DOMAIN store \ DOMAIN store'
          THEN /\ sent[<<i, "cancel">>] = 0
               /\ sent'[<<i, "cancel">>] = IF store[i].user_id # 0 THEN 1 ELSE 0
          ELSE sent'[<<i, "cancel">>] = sent[<<i, "cancel">>]]_vars

\* both bookings were deleted: one of a customer, with its notice, and one
\* entered by hand with requester id 0, without
C24_Witness ==
    /\ nextId = 3
    /\ DOMAIN store = {}
    /\ sent[<<1, "cancel">>] + sent[<<2, "cancel">>] = 1

\* a step in which a slot request or a manual entry of requester u ends: the
\* request is refused or its handler finishes, the entry is refused, finishes
\* or is cancelled
FlowEnds(u) ==
    \/ \E d \in InputDates, h \in InputHours : process_booking_taken(u, d, h)
    \/ \E d \in InputDates, h \in InputHours :
          process_booking_created(u, d, h) /\ inflight' = inflight
    \/ process_booking_resume(u)
    \/ \E t \in InputTimes : process_admin_time_taken(u, t)
    \/ process_admin_time_resume(u)
    \/ admin_cancel_booking(u)

\* C25: no end of a slot request or of a manual entry, the refusal of a
\* request for an occupied slot included, leaves the requester with a
\* conversation state or with collected data.
C25_FlowEndClearsState ==
    \A u \in Users : ~ ENABLED (FlowEnds(u) /\ fsm'[u] # Cleared)

\* C26: the step of a confirm (of a reject) that begins the notice leaves the
\* booking confirmed (rejected), and the step in which the notice fails
\* changes nothing in the table: the failure does not take the decision back.
C26_FailedNoticeKeepsDecision ==
    [][\A i \in Ids :
          /\ sent'[<<i, "confirm">>] > sent[<<i, "confirm">>]
             => store'[i].status = "confirmed"
          /\ sent'[<<i, "reject">>] > sent[<<i, "reject">>]
             => store'[i].status = "rejected"
          /\ sent'[<<i, "decision_failed">>] > sent[<<i, "decision_failed">>]
             => store' = store]_vars

\* the only notice for booking i was begun by a confirm and failed, and the
\* booking is confirmed
C26_Witness ==
    \E i \in DOMAIN store :
        /\ sent[<<i, "confirm">>] = 1
        /\ sent[<<i, "reject">>] = 0
        /\ sent[<<i, "decision_failed">>] = 1
        /\ store[i].status = "confirmed"

\* the clock has reached the last tick that the model follows
HorizonEnd == schedPc = "sleep" /\ ~ InHorizon(now + TickInterval)

\* C27: the clock of the task moves only out of the sleep and by exactly the
\* interval; every pass, whatever failed in it, ends in the sleep; and the
\* task goes on tick after tick until the last tick that is followed.
C27_LoopGoesOn ==
    /\ [][now' # now => (schedPc = "sleep" /\ now' = now + TickInterval)]_vars
    /\ [](schedPc # "sleep" => <>(schedPc = "sleep"))
    /\ <>[]HorizonEnd

\* the task has reached the last tick after a pass in which a send failed
C27_Witness ==
    /\ HorizonEnd
    /\ \E i \in Ids : sent[<<i, "hour_failed">>] > 0

\* no instant of the tick grid of this run (the instants that differ from now
\* by a multiple of the interval) has 0.9 <= H <= 1.1 for booking b
NoTickInHourWindow(b) ==
    \A h \in 0..(2 * UnitsPerHour) :
        ClaimHourWindow(h) => (hours_diff(b, now) - h) % TickInterval # 0

\* C28: in a run without downtime and without decisions, a booking for which
\* no tick instant has 0.9 <= H <= 1.1 gets neither the customer hour reminder
\* nor the admin reminder, and such a run exists (the witness): the window is
\* 12 minutes wide and the ticks are 15 minutes apart.
C28_WindowMissedBetweenTicks ==
    \A i \in DOMAIN store :
        (IsCalendarDate(store[i].selected_date) /\ NoTickInHourWindow(store[i]))
        => (sent[<<i, "hour">>] = 0 /\ sent[<<i, "admin">>] = 0)

\* with an administrator configured, a booking confirmed since the start of
\* the run starts today, the ticks began more than 1.1 h before its start and
\* are now less than 0.9 h before it, and nothing was sent for it
C28_Witness ==
    \E i \in DOMAIN store :
        /\ ADMIN_ID # NoAdmin
        /\ store[i].status = "confirmed"
        /\ store[i].selected_date = strftime_date(now)
        /\ NoTickInHourWindow(store[i])
        /\ hours_diff(store[i], now) > 0
        /\ hours_diff(store[i], now) < HourLo
        /\ ~ store[i].reminder_hour_sent
        /\ sent[<<i, "hour">>] = 0
        /\ sent[<<i, "admin">>] = 0
        /\ schedPc = "sleep"

\* C29: a step that ends at an instant with H < 23 for a booking dispatches
\* no day reminder for it, and one that ends at an instant with H < 0.9
\* dispatches no hour reminder for it; as the clock never moves back, a booking
\* first seen by a tick below the window is never reminded, whatever its flag
\* and whatever the downtime before that tick.
C29_NoCatchUp ==
    [][\A i \in DOMAIN store :
          IsCalendarDate(store[i].selected_date)
          => /\ now' >= now
             /\ hours_diff(store[i], now') < 23 * UnitsPerHour
                => NotDispatchedNow(i, "day")
             /\ 10 * hours_diff(store[i], now') < 9 * UnitsPerHour
                => NotDispatchedNow(i, "hour")]_vars

\* after a restart the task sleeps, less than 0.9 h before the start of a
\* confirmed booking that never got a reminder and whose flags are still false
C29_Witness ==
    \E i \in DOMAIN store :
        /\ restarts > 0
        /\ schedPc = "sleep"
        /\ store[i].status = "confirmed"
        /\ hours_diff(store[i], now) > 0
        /\ hours_diff(store[i], now) < HourLo
        /\ ~ store[i].reminder_day_sent /\ ~ store[i].reminder_hour_sent
        /\ sent[<<i, "day">>] = 0 /\ sent[<<i, "hour">>] = 0

\* the start times offered for a date: 15:00 and 18:00 from Monday to Friday,
\* 11:00, 14:00 and 17:00 on Saturday and Sunday
PermittedTimes(d) ==
    IF weekday(d) < 5 THEN {<<15, 0>>, <<18, 0>>}
    ELSE {<<11, 0>>, <<14, 0>>, <<17, 0>>}

\* C30: in every reachable state the time of every stored booking is one of
\* the start times permitted for the day type of its date.
C30_TimesPermitted ==
    \A i \in DOMAIN store :
        IsCalendarDate(store[i].selected_date)
        => store[i].selected_time \in PermittedTimes(store[i].selected_date)

\* the position of booking i in list L (0 when it is not listed)
PositionIn(L, i) ==
    IF \E k \in 1..Len(L) : L[k].id = i
    THEN CHOOSE k \in 1..Len(L) : L[k].id = i
    ELSE 0

\* list L holds every row of table s once, as it is stored
ListsWholeTable(L, s) ==
    /\ Len(L) = Cardinality(DOMAIN s)
    /\ \A i \in DOMAIN s : PositionIn(L, i) > 0 /\ L[PositionIn(L, i)] = s[i]

\* C31: get_all_bookings returns every stored booking; a pending booking
\* comes before every confirmed one and a confirmed one before every rejected
\* one, whatever their ids (their order of insertion) are; of two bookings
\* with one status, the one created later never comes after the other
C31_AllListedByStatusThenNewest ==
    LET L == admin_all_bookings(store) IN
    /\ ListsWholeTable(L, store)
    /\ \A k, m \in 1..Len(L) :
          k < m => /\ StatusRank(L[k].status) <= StatusRank(L[m].status)
                   /\ L[k].status = L[m].status => L[k].created_at >= L[m].created_at
    /\ \A k \in 1..Len(L) : L[k].status \in Statuses

\* the scenario of the specification: bookings inserted as rejected, pending,
\* confirmed are listed as pending, confirmed, rejected; and two bookings of
\* one status created at different times are in the table
C31_Witness ==
    LET L == admin_all_bookings(store) IN
    /\ {1, 2, 3} \subseteq DOMAIN store
    /\ store[1].status = "rejected"
    /\ store[2].status = "pending"
    /\ store[3].status = "confirmed"
    /\ store[1].created_at < store[3].created_at
    /\ PositionIn(L, 2) < PositionIn(L, 3)
    /\ PositionIn(L, 3) < PositionIn(L, 1)

C31_WitnessSameStatus ==
    LET L == admin_all_bookings(store) IN
    /\ {1, 3} \subseteq DOMAIN store
    /\ store[1].status = "confirmed"
    /\ store[3].status = "confirmed"
    /\ store[1].created_at < store[3].created_at
    /\ PositionIn(L, 3) < PositionIn(L, 1)

\* booking a is scheduled before booking b: on an earlier day of the
\* calendar, or on the same day at an earlier time
ScheduledBefore(a, b) ==
    \/ DayIndexOf(a.selected_date) < DayIndexOf(b.selected_date)
    \/ /\ a.selected_date = b.selected_date
       /\ \/ a.selected_time[1] < b.selected_time[1]
          \/ /\ a.selected_time[1] = b.selected_time[1]
             /\ a.selected_time[2] < b.selected_time[2]

Chronological(L) == \A k, m \in 1..Len(L) : k < m => ~ ScheduledBefore(L[m], L[k])

\* C32: the lists of get_confirmed_bookings and of get_bookings_by_date_range
\* (as admin_today and admin_week ask for it) are in ascending chronological
\* order of date and time, also when their dates lie in different months
C32_ListsChronological ==
    /\ Chronological(get_confirmed_bookings(store))
    /\ Chronological(admin_today_bookings(store, now))
    /\ Chronological(admin_week_bookings(store, now))

\* the days and the times the slot queries are asked about: the days the
\* keyboard covers and the times it offers, and the times stored
AskedDays == 1..7
AskedTimes == {<<h, 0>> : h \in {11, 14, 15, 17, 18}} \cup RangeTimes

\* C33: for every date d and time t, t is in get_booked_slots(d) exactly when
\* is_slot_available(d, t) is false, which is exactly when a pending or
\* confirmed booking is stored for (d, t); every slot button that
\* get_dates_keyboard renders is for a slot that is available when it renders
C33_BookedIffUnavailable ==
    /\ \A k \in AskedDays, t \in AskedTimes :
          LET d == strftime_ahead(now, k) IN
          /\ t \in get_booked_slots(store, d) <=> ~ is_slot_available(store, d, t)
          /\ ~ is_slot_available(store, d, t) <=> SlotHolders(store, d, t) # {}
    /\ \A b \in get_dates_keyboard(store, now) :
          is_slot_available(store, b[1], <<b[2], 0>>)

\* a customer has been shown the keyboard while a slot of its days is held
\* by a pending booking and another by a confirmed one: neither has a
\* button, a rejected booking's slot has one
C33_Witness ==
    /\ \E u \in Users : fsm[u].state = "waiting_for_date"
    /\ \E i, j \in DOMAIN store :
          /\ store[i].status = "pending"
          /\ store[j].status = "confirmed"
          /\ <<store[i].selected_date, store[i].selected_time[1]>>
                \notin get_dates_keyboard(store, now)
          /\ <<store[j].selected_date, store[j].selected_time[1]>>
                \notin get_dates_keyboard(store, now)
          /\ \E k \in AskedDays : store[i].selected_date = strftime_ahead(now, k)
    /\ get_dates_keyboard(store, now) # {}

\* C34: in every reachable state get_bookings_summary gives, for each of
\* pending, confirmed and rejected, the number of stored bookings with that
\* status, and its total is both the sum of the three and the number of
\* stored bookings
C34_SummaryCounts ==
    LET m == get_bookings_summary(store) IN
    /\ m.pending = Cardinality({i \in DOMAIN store : store[i].status = "pending"})
    /\ m.confirmed = Cardinality({i \in DOMAIN store : store[i].status = "confirmed"})
    /\ m.rejected = Cardinality({i \in DOMAIN store : store[i].status = "rejected"})
    /\ m.total = m.pending + m.confirmed + m.rejected
    /\ m.total = Cardinality(DOMAIN store)

\* a table of two bookings, one rejected by the admin and one confirmed
C34_Witness ==
    /\ get_bookings_summary(store).rejected = 1
    /\ get_bookings_summary(store).confirmed = 1
    /\ get_bookings_summary(store).total = 2

\* C35: the past-date check of a scan tick skips a confirmed booking only
\* when its calendar date is before the day of the tick: a booking for that
\* day or a later day of the year is never skipped, whatever the two dates
\* are
C35_SkipsOnlyPastDates ==
    \A k \in 1..Len(TickList) :
        (IsCalendarDate(TickList[k].selected_date) /\ SkippedAsPast(TickList[k], now))
        => DatedBefore(TickList[k], now)

\* the pending and confirmed bookings scheduled from k1 to k2 days after the
\* day of clock reading t
ScheduledAhead(s, t, k1, k2) ==
    {i \in DOMAIN s : /\ s[i].status \in Occupying
                      /\ \E k \in k1..k2 : s[i].selected_date = strftime_ahead(t, k)}

ListedIds(L) == {L[k].id : k \in 1..Len(L)}

\* C36: get_bookings_by_date_range(start, end) returns exactly the pending
\* and confirmed bookings whose date lies from start to end; the week view
\* of the admin lists every pending or confirmed booking of the seven days
\* from tomorrow on, also when these days run over the end of a month
C36_RangeListsItsDays ==
    /\ ListedIds(admin_week_bookings(store, now)) = ScheduledAhead(store, now, 1, 7)
    /\ ListedIds(admin_today_bookings(store, now)) = ScheduledAhead(store, now, 0, 1)

\* C37: whenever a customer or admin reminder is dispatched for a booking,
\* the booking is in the table and confirmed at that moment, however the
\* admin's rejections and deletions fall between the sends of a scan tick
C37_DispatchedWhileConfirmed ==
    [][\A i \in Ids, k \in {"day", "hour", "admin"} :
          DispatchedNow(i, k) => i \in DOMAIN store /\ store[i].status = "confirmed"]_vars

\* C38: a slot request that was answered with the error has inserted no
\* booking and has left its slot available, and every booking inserted by a
\* slot request whose handling is over was answered with "created"
C38_ErrorMeansNothingInserted ==
    \A i \in Ids :
        /\ sent[<<i, "error_reply">>] > 0 => i \notin DOMAIN store
        /\ (i \in DOMAIN store /\ RequestsInFlight(i) = 0)
           => sent[<<i, "created_reply">>] > 0

\* C39: the fields of a booking created by the manual entry are values
\* entered in the run of the flow that creates it, or the placeholder: a run
\* whose requester id is not 0 is never asked for a username, so its booking
\* carries the placeholder, and never a username typed in an earlier run
\* that was abandoned by starting the flow again
C39_NothingFromAbandonedRun ==
    \A i \in DOMAIN store :
        store[i].user_id # UnknownUser => store[i].username = DefaultUsername

\* the flag of the given kind of booking i goes from false to true in this step
FlagRaised(i, kind) ==
    /\ i \in DOMAIN store /\ i \in DOMAIN store'
    /\ IF kind = "day"
       THEN ~ store[i].reminder_day_sent /\ store'[i].reminder_day_sent
       ELSE ~ store[i].reminder_hour_sent /\ store'[i].reminder_hour_sent

\* the step is the return of the send of that kind which a scan tick began
\* for booking i, having seen it as confirmed and inside the window
RaisedBySend(i, kind) ==
    /\ SchedStep
    /\ schedPc = (IF kind = "day" THEN "day_send" ELSE "hour_send")
    /\ all_bookings[idx].id = i
    /\ all_bookings[idx].status = "confirmed"
    /\ IF kind = "day" THEN InDayWindow(hours_diff(all_bookings[idx], now))
                       ELSE InHourWindow(hours_diff(all_bookings[idx], now))
    /\ sent[<<i, kind>>] > 0

\* C40: in every reachable state a booking whose day (hour) flag is set has
\* had a customer day (hour) reminder dispatched for it earlier; a flag is
\* only raised when the send returns that a scan tick began for the booking,
\* which it saw as confirmed and inside the window of that kind; no step of
\* a request handler raises a flag
C40_FlagMeansDispatched ==
    /\ [](\A i \in DOMAIN store :
             /\ store[i].reminder_day_sent => sent[<<i, "day">>] > 0
             /\ store[i].reminder_hour_sent => sent[<<i, "hour">>] > 0)
    /\ [][\A i \in Ids, kind \in {"day", "hour"} :
             FlagRaised(i, kind) => RaisedBySend(i, kind)]_vars

\* the admin has rejected a booking whose day flag a scan tick has set after
\* dispatching its day reminder, and the flag is still set
C40_Witness ==
    \E i \in DOMAIN store :
        /\ store[i].reminder_day_sent
        /\ store[i].status = "rejected"
        /\ sent[<<i, "day">>] = 1
        /\ schedPc = "sleep"

====
